---------------------------- MODULE Spec2Model ----------------------------
(***************************************************************************)
(* EcoLoop AI image-analysis service (src/ai-service/app.py).             *)
(*                                                                         *)
(* The decision pipeline is modelled function by function.  Python dicts  *)
(* are records; a key that a dict does not carry is a field the record    *)
(* does not have, so d['k'] on such a dict is a KeyError and d.get('k',x) *)
(* is x.  Python strings are TLA+ strings, `k in s` is Contains(k, s).    *)
(* Classification confidences are percentages rounded to two decimals     *)
(* (round(confidence, 2)); they are kept as integers in hundredths of a   *)
(* percent, so 13% is Pct(13) = 1300.                                      *)
(*                                                                         *)
(* Pixel data never reaches the model: an image is the record of the      *)
(* measurements OpenCV takes from it (dimensions, Laplacian variance,     *)
(* mean brightness, contour and line counts, row positions), and the      *)
(* classifier is an oracle giving the ranked (label, confidence) list.    *)
(***************************************************************************)
EXTENDS Integers, Sequences, FiniteSets, TLC

VARIABLES
    tables,     \* the module-level keyword tables (app.py:33-77)
    slots,      \* requests being served by the HTTP handlers, one per worker
    replies,    \* the response each worker produced for its request
    fetches,    \* per worker: number of download attempts made for the request
    pc,         \* position of the direct run of the pipeline functions
    inp,        \* inputs of the direct run (image, classifier output, call shape)
    stage,      \* stage results of the direct run
    verdict     \* result of process_analysis_results in the direct run

vars == <<tables, slots, replies, fetches, pc, inp, stage, verdict>>

-----------------------------------------------------------------------------
(* Python values                                                           *)

\* Python None where a dict is expected
None == [py_none |-> TRUE]

\* Python None where a string is expected
Null == "None"

\* d.get(k, default)
Get(d, k, default) == IF k \in DOMAIN d THEN d[k] ELSE default

\* truthiness of an optional dict argument (None and {} are falsy)
Truthy(d) == d # None /\ DOMAIN d # {}

\* a percentage as stored in the model (hundredths of a percent)
Pct(n) == n * 100

UpperCase == <<"A","B","C","D","E","F","G","H","I","J","K","L","M",
               "N","O","P","Q","R","S","T","U","V","W","X","Y","Z">>

LowerCase == <<"a","b","c","d","e","f","g","h","i","j","k","l","m",
               "n","o","p","q","r","s","t","u","v","w","x","y","z">>

LowerChar(c) ==
    IF \E i \in 1..26 : UpperCase[i] = c
    THEN LowerCase[CHOOSE i \in 1..26 : UpperCase[i] = c]
    ELSE c

RECURSIVE Lower(_)
\* str.lower()
Lower(s) ==
    IF Len(s) = 0 THEN ""
    ELSE LowerChar(SubSeq(s, 1, 1)) \o Lower(SubSeq(s, 2, Len(s)))

\* Python `k in s` for strings: k occurs as a substring of s
Contains(k, s) ==
    \E i \in 0..(Len(s) - Len(k)) : SubSeq(s, i + 1, i + Len(k)) = k

\* any(word in s for word in words)
AnyIn(words, s) == \E i \in 1..Len(words) : Contains(words[i], s)

-----------------------------------------------------------------------------
(* Static keyword tables                                                   *)

MARKETPLACE_CATEGORIES ==
  <<
     [category |-> "fabric",
      keywords |-> <<"jersey", "velvet", "wool", "denim", "kimono", "diaper", "quilt", "scarf", "stole", "gown", "abaya", "bathrobe", "cloak">>],
     [category |-> "cloth",
      keywords |-> <<"jersey", "velvet", "wool", "denim", "bow_tie", "apron", "sock", "pajama", "raincoat", "T-shirt", "gown", "sweater", "cardigan", "hoodie">>],
     [category |-> "wood",
      keywords |-> <<"park_bench", "picket_fence", "wooden_spoon", "cutting_board", "timber", "plywood", "crate", "pallet", "lumber", "driftwood", "branch", "sawdust">>],
     [category |-> "metal",
      keywords |-> <<"chain_saw", "hammer", "wrench", "nail", "screw", "can_opener", "tin_can", "aluminum", "iron", "steel", "wire", "utensil", "spoon", "fork", "knife">>],
     [category |-> "plastic",
      keywords |-> <<"plastic_bag", "bottle_cap", "container", "bucket", "cup", "straw", "polymer", "bottle", "toy", "tub", "tupperware", "PET", "HDPE", "PVC">>],
     [category |-> "glass",
      keywords |-> <<"wine_bottle", "beer_bottle", "drinking_glass", "jar", "window", "vase", "mirror", "goblet", "tumbler", "jug", "container", "lens">>],
     [category |-> "paper",
      keywords |-> <<"envelope", "book_jacket", "notebook", "menu", "cardboard", "carton", "box", "packaging", "newspaper", "magazine", "parchment">>],
     [category |-> "electronics",
      keywords |-> <<"desktop_computer", "laptop", "cellular_telephone", "remote_control", "circuit", "board", "battery", "cable", "charger", "keyboard", "mouse">>],
     [category |-> "furniture",
      keywords |-> <<"chair", "table", "desk", "bookshelf", "wardrobe", "sofa", "couch", "cupboard", "cabinet", "nightstand", "stool", "ottoman", "bench">>],
     [category |-> "tools",
      keywords |-> <<"hammer", "screwdriver", "wrench", "saw", "drill", "pliers", "scissors", "cutter", "tape_measure", "level", "clamp", "vise", "chisel">>],
     [category |-> "rubber",
      keywords |-> <<"tire", "boot", "mat", "band", "shoe_sole", "gasket", "eraser", "glove", "wader", "hose">>],
     [category |-> "leather",
      keywords |-> <<"saddle", "suitcase", "handbag", "wallet", "boot", "shoe", "belt", "jacket", "briefcase", "purse">>],
     [category |-> "yarn",
      keywords |-> <<"ball", "skein", "thread", "wool", "cotton", "acrylic", "knitting", "crochet", "embroidery", "spun", "string">>],
     [category |-> "natural",
      keywords |-> <<"bamboo", "shell", "cork", "plant_fiber", "rattan", "jute", "wicker", "straw", "coconut", "seed", "pod", "leaf", "flower">>]
  >>

DOCUMENT_KEYWORDS ==
  <<"document", "text", "certificate", "diploma", "license", "identification", "passport", "card", "id_card", "book", "notebook", "sheet", "paper", "letter", "envelope", "form", "manuscript", "contract", "receipt", "prescription", "ballot">>

RECYCLABLE_CATEGORIES ==
  {"fabric", "cloth", "wood", "metal", "plastic", "glass", "paper", "electronics", "rubber", "leather", "yarn", "natural"}

NON_MARKETPLACE_CATEGORIES ==
  <<
     [category |-> "person",
      keywords |-> <<"person", "people", "face", "woman", "man", "child", "portrait", "selfie", "human">>],
     [category |-> "landscape",
      keywords |-> <<"mountain", "field", "forest", "beach", "sky", "sea", "ocean", "lake", "river", "waterfall">>],
     [category |-> "urban",
      keywords |-> <<"street", "building", "city", "skyline", "bridge", "road", "highway", "architecture">>],
     [category |-> "event",
      keywords |-> <<"celebration", "party", "wedding", "conference", "ceremony", "festival", "concert">>],
     [category |-> "food",
      keywords |-> <<"food", "fruit", "vegetable", "meal", "dish", "cuisine", "dinner", "breakfast", "lunch">>],
     [category |-> "animal",
      keywords |-> <<"dog", "cat", "bird", "fish", "pet", "animal", "wildlife">>],
     [category |-> "plant",
      keywords |-> <<"plant", "flower", "tree", "grass", "garden", "forest", "jungle", "bush", "herb">>]
  >>

\* the tables as the process holds them after import
StaticTables ==
    [MARKETPLACE_CATEGORIES     |-> MARKETPLACE_CATEGORIES,
     DOCUMENT_KEYWORDS          |-> DOCUMENT_KEYWORDS,
     RECYCLABLE_CATEGORIES      |-> RECYCLABLE_CATEGORIES,
     NON_MARKETPLACE_CATEGORIES |-> NON_MARKETPLACE_CATEGORIES]

-----------------------------------------------------------------------------
(* check_image_quality                                                     *)

min_size == 100
blur_threshold == 100
brightness_min == 50

\* the bright limit set at the dark limit
brightness_max_at_min == brightness_min

brightness_max == 200

Max(a, b) == IF a >= b THEN a ELSE b
Min(a, b) == IF a <= b THEN a ELSE b

\* an except branch that reports the failed check as a quality defect
QualityCheckFailedLow ==
    [quality_score |-> 0, status |-> "low_quality",
     issues |-> <<"Quality check failed">>, error |-> "cv2.error"]

\* the dict returned from the except branch
QualityCheckFailed ==
    [quality_score |-> 50, status |-> "usable",
     issues |-> <<"Quality check failed">>, error |-> "cv2.error"]

check_image_quality(image) ==
    IF image.cv_fail = "convert" THEN QualityCheckFailed
    ELSE IF image.height < min_size \/ image.width < min_size
    THEN [quality_score |-> 20, status |-> "low_quality",
          issues |-> <<"Image too small">>]
    ELSE IF image.cv_fail = "stats" THEN QualityCheckFailed
    ELSE
      LET blurry == image.laplacian_var < blur_threshold
          dark   == image.brightness < brightness_min
          bright == ~dark /\ image.brightness > brightness_max
          issues == (IF blurry THEN <<"Image appears blurry">> ELSE <<>>)
                    \o (IF dark THEN <<"Image too dark">> ELSE <<>>)
                    \o (IF bright THEN <<"Image too bright">> ELSE <<>>)
          quality_score == 100 - (IF blurry THEN 40 ELSE 0)
                               - (IF dark \/ bright THEN 20 ELSE 0)
          status == IF quality_score < 50 THEN "low_quality"
                    ELSE IF quality_score < 70 THEN "blurry"
                    ELSE "usable"
      IN [quality_score |-> Max(quality_score, 0),
          status        |-> status,
          issues        |-> issues,
          metrics       |-> [blur_score |-> image.laplacian_var,
                             brightness |-> image.brightness,
                             dimensions |-> <<image.width, image.height>>]]

-----------------------------------------------------------------------------
(* classify_image_with_mobilenet                                           *)

RECURSIVE LastCategory(_, _, _)
\* a scan that lets the last matching category win
LastCategory(categories, label, i) ==
    IF i > Len(categories) THEN "other"
    ELSE IF LastCategory(categories, label, i + 1) # "other"
         THEN LastCategory(categories, label, i + 1)
         ELSE IF AnyIn(categories[i].keywords, Lower(label))
              THEN categories[i].category
              ELSE "other"

RECURSIVE FirstCategory(_, _, _)
\* the for/break loop over MARKETPLACE_CATEGORIES.items(), from entry i on
FirstCategory(categories, label, i) ==
    IF i > Len(categories) THEN "other"
    ELSE IF AnyIn(categories[i].keywords, Lower(label))
         THEN categories[i].category
         ELSE FirstCategory(categories, label, i + 1)

\* pred is the oracle's answer: ok = FALSE when model.predict raises,
\* top5 the decoded predictions with confidence already in hundredths
classify_image_with_mobilenet(categories, pred) ==
    IF ~pred.ok \/ Len(pred.top5) = 0
    THEN [label |-> "unknown", raw_label |-> "unknown", confidence |-> 0,
          error |-> "classifier failed"]
    ELSE [label           |-> FirstCategory(categories, pred.top5[1].label, 1),
          raw_label       |-> pred.top5[1].label,
          confidence      |-> pred.top5[1].confidence,
          all_predictions |-> pred.top5]

-----------------------------------------------------------------------------
(* detect_text_in_image                                                    *)

\* dict assignment d[k] = v
DictSet(d, k, v) == [x \in (DOMAIN d) \cup {k} |-> IF x = k THEN v ELSE d[x]]

RECURSIVE SumSeq(_)
SumSeq(s) == IF Len(s) = 0 THEN 0 ELSE s[1] + SumSeq(Tail(s))

RECURSIVE SortedKeys(_)
\* sorted(d.keys()) of a set of integers
SortedKeys(S) ==
    IF S = {} THEN <<>>
    ELSE LET m == CHOOSE x \in S : \A y \in S : x <= y
         IN <<m>> \o SortedKeys(S \ {m})

Abs(n) == IF n < 0 THEN -n ELSE n

\* a row recorded from 3 elements on
CloseRowOfThree(rows, prev_y, current_row) ==
    IF Len(current_row) >= 3
    THEN [text_rows     |-> DictSet(rows.text_rows, prev_y, Len(current_row)),
          line_clusters |-> rows.line_clusters + 1]
    ELSE rows

\* closing a row: it is recorded under prev_y when it has at least 4 elements
CloseRow(rows, prev_y, current_row) ==
    IF Len(current_row) >= 4
    THEN [text_rows     |-> DictSet(rows.text_rows, prev_y, Len(current_row)),
          line_clusters |-> rows.line_clusters + 1]
    ELSE rows

RECURSIVE GroupFrom(_, _, _, _, _)
\* the loop `for y in y_positions` from position i on, then the last row
GroupFrom(ys, i, prev_y, current_row, rows) ==
    IF i > Len(ys) THEN CloseRow(rows, prev_y, current_row)
    ELSE IF Abs(ys[i] - prev_y) <= 5
    THEN GroupFrom(ys, i + 1, ys[i], Append(current_row, ys[i]), rows)
    ELSE GroupFrom(ys, i + 1, ys[i], <<ys[i]>>, CloseRow(rows, prev_y, current_row))

NoRows == [text_rows |-> <<>>, line_clusters |-> 0]

\* the row grouping of the sorted y positions: text_rows and line_clusters
GroupRows(ys) ==
    GroupFrom(ys, 1, IF Len(ys) > 0 THEN ys[1] ELSE 0, <<>>, NoRows)

\* spacing_variance < 25 for the recorded rows, in exact integer arithmetic:
\* with n spacings s_i of sum S the variance is Sum((n*s_i - S)^2) / n^3
SpacingConsistent(text_rows) ==
    LET row_positions == SortedKeys(DOMAIN text_rows)
        n == Len(row_positions) - 1
        spacings == [i \in 1..n |-> row_positions[i + 1] - row_positions[i]]
        S == SumSeq(spacings)
        dev == [i \in 1..n |-> (n * spacings[i] - S) * (n * spacings[i] - S)]
    IN SumSeq(dev) < 25 * n * n * n

\* the test made to need an object that fills more than half of the frame
HasCentralObjectHalfFrame(image) ==
    /\ image.n_contours > 0
    /\ image.largest_area_ratio > 50
    /\ 30 < image.center_x /\ image.center_x < 70

\* large central object test of the text detector (largest external contour)
HasCentralObject(image) ==
    /\ image.n_contours > 0
    /\ image.largest_area_ratio > 25
    /\ 30 < image.center_x /\ image.center_x < 70
    /\ \/ (30 < image.aspect_ratio /\ image.aspect_ratio < 80)
       \/ (120 < image.aspect_ratio /\ image.aspect_ratio < 300)

TextDetectionFailed ==
    [has_text_pattern |-> FALSE, confidence |-> 0, error |-> "cv2.error"]

\* is_organized: enough rows, and evenly spaced when at least 3 are recorded
IsOrganized(image, line_clusters, text_rows) ==
    /\ image.n_contours > 30
    /\ line_clusters >= 5
    /\ (Cardinality(DOMAIN text_rows) >= 3 => SpacingConsistent(text_rows))

\* the confidence of the text detector and the dict it returns
TextResults(image, has_central_object, has_text_pattern, is_organized, line_clusters, text_rows) ==
    LET c1 == IF has_text_pattern THEN 30 ELSE 0
        c2 == IF is_organized /\ line_clusters >= 5 THEN 35 ELSE 0
        c3 == IF image.text_like_contours > 30
                 /\ image.small_rectangular_contours > 40 THEN 20 ELSE 0
        c4 == IF has_central_object THEN Max(0, c1 + c2 + c3 - 50)
              ELSE c1 + c2 + c3
    IN [has_text_pattern   |-> has_text_pattern,
        confidence         |-> Min(c4, 100),
        organized_text     |-> is_organized,
        text_contours      |-> image.small_rectangular_contours,
        text_like_contours |-> image.text_like_contours,
        line_clusters      |-> line_clusters,
        has_central_object |-> has_central_object,
        text_rows          |-> Cardinality(DOMAIN text_rows)]

\* the text detector once the rows are grouped
TextResultsOfRows(image, grouped) ==
    TextResults(image, HasCentralObject(image),
                image.small_rectangular_contours > 35 /\ image.text_like_contours > 20,
                IsOrganized(image, grouped.line_clusters, grouped.text_rows),
                grouped.line_clusters, grouped.text_rows)

detect_text_in_image(image) ==
    IF image.cv_fail = "convert" THEN TextDetectionFailed
    ELSE TextResultsOfRows(image,
             IF image.n_contours > 30
             THEN GroupRows(SortSeq(image.y_positions, LAMBDA a, b : a < b))
             ELSE NoRows)

-----------------------------------------------------------------------------
(* detect_document_visual_patterns                                         *)

\* large, centred largest contour (both axes within the middle 60%)
HasLargeCentralObject(image) ==
    /\ image.n_contours > 0
    /\ image.largest_area_ratio > 20
    /\ 20 < image.center_x /\ image.center_x < 80
    /\ 20 < image.center_y /\ image.center_y < 80

\* the aspect-ratio classes of the recyclable shapes; 0.8 and 1.2 match none
RecyclableShapeEvidence(image) ==
    IF ~HasLargeCentralObject(image) THEN <<>>
    ELSE IF 20 < image.aspect_ratio /\ image.aspect_ratio < 80
         THEN <<"Detected tall container/bottle shape">>
    ELSE IF 80 < image.aspect_ratio /\ image.aspect_ratio < 120
         THEN <<"Detected square/compact object shape">>
    ELSE IF 120 < image.aspect_ratio /\ image.aspect_ratio < 300
         THEN <<"Detected wide object/material shape">>
    ELSE <<>>

VisualPatternFailed ==
    [is_document_pattern |-> FALSE, confidence |-> 0, error |-> "cv2.error"]

\* the pattern score and the dict the pattern detector returns
PatternResults(image, recyclable_evidence, has_recyclable_shape) ==
      LET grid == /\ image.horizontal_lines > 8 /\ image.vertical_lines > 8
                  /\ 2 * image.diagonal_lines
                       < image.horizontal_lines + image.vertical_lines
          headers == image.header_rectangles > 2
          fields == image.form_field_rectangles > 5
          blocks == image.content_rectangles > 3
          histo == image.bright_peaks >= 1 /\ image.dark_peaks >= 1
                   /\ image.mid_peaks <= 2
          raw_score == (IF grid THEN 25 ELSE 0) + (IF headers THEN 20 ELSE 0)
                       + (IF fields THEN 15 ELSE 0) + (IF blocks THEN 15 ELSE 0)
                       + (IF histo THEN 15 ELSE 0)
          pattern_score == IF has_recyclable_shape THEN Max(0, raw_score - 40)
                           ELSE raw_score
          evidence == (IF grid THEN <<"Strong grid pattern">> ELSE <<>>)
                      \o (IF headers THEN <<"Header-like rectangles">> ELSE <<>>)
                      \o (IF fields THEN <<"Form field-like rectangles">> ELSE <<>>)
                      \o (IF blocks THEN <<"Content block rectangles">> ELSE <<>>)
                      \o (IF histo THEN <<"Document-like intensity distribution">> ELSE <<>>)
                      \o (IF has_recyclable_shape
                          THEN <<"Applied recyclable shape penalty">> ELSE <<>>)
      IN [is_document_pattern  |-> pattern_score > 60,
          confidence           |-> Min(pattern_score, 100),
          evidence             |-> evidence,
          recyclable_evidence  |-> recyclable_evidence,
          has_recyclable_shape |-> has_recyclable_shape,
          grid_score           |-> image.horizontal_lines + image.vertical_lines,
          rectangle_score      |-> image.header_rectangles
                                   + image.form_field_rectangles
                                   + image.content_rectangles]

\* the pattern detector once the shape of the largest contour is classified
PatternResultsOfShape(image, recyclable_evidence) ==
    PatternResults(image, recyclable_evidence, Len(recyclable_evidence) > 0)

detect_document_visual_patterns(image) ==
    IF image.cv_fail = "convert" THEN VisualPatternFailed
    ELSE PatternResultsOfShape(image, RecyclableShapeEvidence(image))

-----------------------------------------------------------------------------
(* detect_document_content                                                 *)

\* Arguments of detect_document_content carry their Python type, because
\* callers pass it a str, a dict or a PIL image in the raw_label position.
PyStr(s) == [type |-> "str", value |-> s]
PyDict(d) == [type |-> "dict", value |-> d]
PyImage(i) == [type |-> "image", value |-> i]

\* the label -> score dict; get() is an exact-key lookup
recyclable_labels ==
    <<[key |-> "bottle",        value |-> 100],
      [key |-> "container",     value |-> 90],
      [key |-> "plastic_bag",   value |-> 90],
      [key |-> "water_bottle",  value |-> 100],
      [key |-> "tool",          value |-> 100],
      [key |-> "screwdriver",   value |-> 100],
      [key |-> "measuring_cup", value |-> 90],
      [key |-> "lumbermill",    value |-> 90],
      [key |-> "Petri_dish",    value |-> 80],
      [key |-> "packet",        value |-> 70],
      [key |-> "saltshaker",    value |-> 90],
      [key |-> "utensil",       value |-> 90]>>

\* recyclable_labels.get(raw_label_lower, 0)
LabelConfidence(raw_label_lower) ==
    IF \E i \in 1..Len(recyclable_labels) : recyclable_labels[i].key = raw_label_lower
    THEN recyclable_labels[CHOOSE i \in 1..Len(recyclable_labels) :
                               recyclable_labels[i].key = raw_label_lower].value
    ELSE 0

recyclable_keywords ==
    <<"bottle", "container", "tool", "material", "plastic", "metal", "wood",
      "glass", "screw", "driver">>

document_keywords == <<"doc", "card", "id", "certificate", "mail", "form">>

\* round(x, 1) of a value held in hundredths: nearest tenth, ties to even
Round1(h) ==
    LET q == h \div 10
        r == h % 10
    IN IF r < 5 THEN 10 * q
       ELSE IF r > 5 THEN 10 * (q + 1)
       ELSE IF q % 2 = 0 THEN 10 * q ELSE 10 * (q + 1)

\* an except branch that takes the unreadable image for a document
DocumentCheckFailedPositive ==
    [is_document |-> TRUE, confidence |-> Pct(100), evidence |-> <<>>,
     error |-> "exception"]

\* the dict returned from the except branch
DocumentCheckFailed ==
    [is_document |-> FALSE, confidence |-> 0, error |-> "exception"]

\* The document confidence is a float; it is kept in hundredths
\* (text_confidence * 0.35 is text_confidence * 35 hundredths).
\* lines 589-661: the decision on the results of the two detectors
DocumentDecision(filename, filename_evidence, label_confidence, text_results, pattern_results) ==
        IF "has_recyclable_shape" \notin DOMAIN pattern_results
        THEN DocumentCheckFailed             \* KeyError on the failed detector
        ELSE
          LET text_confidence == text_results.confidence
              t1 == IF text_results.has_text_pattern /\ text_confidence > 75
                    THEN text_confidence * 35 ELSE 0
              t2 == IF text_results.has_text_pattern
                       /\ text_results.organized_text
                       /\ text_results.line_clusters >= 6
                    THEN Pct(15) ELSE 0
              pattern_confidence == pattern_results.confidence
              t3 == IF pattern_results.is_document_pattern /\ pattern_confidence > 65
                    THEN pattern_confidence * 25 ELSE 0
              central == Get(text_results, "has_central_object", FALSE)
              has_recyclable_indicators ==
                  \/ filename_evidence \/ label_confidence > 0
                  \/ pattern_results.has_recyclable_shape \/ central
              recyclable_confidence ==
                  label_confidence
                  + (IF pattern_results.has_recyclable_shape THEN 35 ELSE 0)
                  + (IF central THEN 25 ELSE 0)
              confidence_reduction == Min(70, recyclable_confidence)
              penalised == IF has_recyclable_indicators
                           THEN Max(0, t1 + t2 + t3 - Pct(confidence_reduction))
                           ELSE t1 + t2 + t3
              by_filename == /\ AnyIn(document_keywords, Lower(filename))
                             /\ (~has_recyclable_indicators \/ recyclable_confidence < 30)
              override == recyclable_confidence >= 60 \/ label_confidence >= 70
              is_document == /\ ~override
                             /\ \/ (penalised > Pct(65) /\ ~has_recyclable_indicators)
                                \/ by_filename
              confidence == IF override THEN 0
                            ELSE IF by_filename THEN Max(penalised, Pct(75))
                            ELSE penalised
              evidence ==
                  (IF t1 > 0 THEN <<"Strong text patterns detected">> ELSE <<>>)
                  \o (IF t2 > 0 THEN <<"Well-organized text structure">> ELSE <<>>)
                  \o (IF t3 > 0 THEN pattern_results.evidence ELSE <<>>)
                  \o (IF pattern_results.has_recyclable_shape
                      THEN pattern_results.recyclable_evidence ELSE <<>>)
                  \o (IF central THEN <<"Central object detected in image">> ELSE <<>>)
                  \o (IF has_recyclable_indicators
                      THEN <<"Applied recyclable material penalty">> ELSE <<>>)
                  \o (IF by_filename
                      THEN <<"Filename indicates document type">> ELSE <<>>)
                  \o (IF override
                      THEN <<"Override: Strong recyclable indicators present">>
                      ELSE <<>>)
          IN [is_document               |-> is_document,
              confidence                |-> Min(Round1(confidence), Pct(100)),
              evidence                  |-> evidence,
              has_recyclable_indicators |-> has_recyclable_indicators,
              recyclable_confidence     |-> recyclable_confidence,
              text_results              |-> text_results,
              pattern_results           |-> pattern_results,
              high_confidence_recyclable |-> FALSE]

\* lines 565-661: the early return for an allow-listed label, else the detectors
DocumentCheckOfLabel(image, filename, filename_evidence, label_confidence) ==
    IF label_confidence >= 90
    THEN [is_document               |-> FALSE,
          confidence                |-> 0,
          evidence                  |->
              (IF filename_evidence THEN <<"Filename indicates recyclable">> ELSE <<>>)
              \o <<"High confidence recyclable label">>,
          has_recyclable_indicators |-> TRUE,
          recyclable_confidence     |-> label_confidence,
          high_confidence_recyclable |-> TRUE]
    ELSE IF image.type # "image"
    THEN DocumentCheckFailed               \* np.array(image) is no picture
    ELSE DocumentDecision(filename, filename_evidence, label_confidence,
                          detect_text_in_image(image.value),
                          detect_document_visual_patterns(image.value))

detect_document_content(image, raw_label, filename) ==
    IF raw_label.type # "str"
    THEN DocumentCheckFailed                 \* raw_label.lower(): AttributeError
    ELSE DocumentCheckOfLabel(image, filename,
                              AnyIn(recyclable_keywords, Lower(filename)),
                              LabelConfidence(Lower(raw_label.value)))

-----------------------------------------------------------------------------
(* analyze_for_suspicious_content                                          *)

personal_words == <<"person", "face", "people", "portrait", "selfie">>
digital_words == <<"screenshot", "web_site", "display", "monitor">>
\* the non-material list extended with the 'animal' keywords of
\* NON_MARKETPLACE_CATEGORIES
non_material_words_with_pets ==
    <<"landscape", "scenery", "building", "food", "animal",
      "dog", "cat", "bird", "fish", "pet", "wildlife">>

non_material_words == <<"landscape", "scenery", "building", "food", "animal">>

\* the elif chain over the three word lists: penalty and issue it records
InappropriateCategory(raw_label) ==
    IF AnyIn(personal_words, raw_label)
    THEN [penalty |-> 40, issue |-> "personal_image"]
    ELSE IF AnyIn(digital_words, raw_label)
    THEN [penalty |-> 35, issue |-> "digital_content"]
    ELSE IF AnyIn(non_material_words, raw_label)
    THEN [penalty |-> 30, issue |-> "non_material"]
    ELSE [penalty |-> 0, issue |-> Null]

SuspiciousThreshold == 40

\* the threshold read as inclusive
IsSuspiciousInclusive(suspicious_score) == suspicious_score >= SuspiciousThreshold

IsSuspicious(suspicious_score) == suspicious_score > SuspiciousThreshold

SuspicionCheckFailed ==
    [is_suspicious |-> FALSE, suspicious_score |-> 0, error |-> "exception"]

\* lines 1343-1385: the score over the three sources of suspicion
SuspicionScore(low, high, doc, cat, doc_check) ==
      LET suspicious_score == (IF low THEN 30 ELSE 0) + (IF doc THEN 50 ELSE 0)
                              + cat.penalty
          specific_issue == IF cat.issue # Null THEN cat.issue
                            ELSE IF doc THEN "document"
                            ELSE IF low THEN "low_confidence"
                            ELSE Null
      IN [is_suspicious    |-> IsSuspicious(suspicious_score),
          suspicious_score |-> suspicious_score,
          specific_issue   |-> specific_issue,
          evidence         |-> (IF low THEN <<"Very low classification confidence">> ELSE <<>>)
                               \o (IF doc THEN doc_check.evidence ELSE <<>>)
                               \o (IF cat.issue # Null THEN <<cat.issue>> ELSE <<>>),
          high_confidence_recyclable |-> high]

\* lines 1352-1377: what the document check contributes, and the word lists
SuspicionOfDocument(confidence, raw_label, high, doc_check) ==
    SuspicionScore(confidence < Pct(20), high, ~high /\ doc_check.is_document,
                   IF high THEN [penalty |-> 0, issue |-> Null]
                   ELSE InappropriateCategory(raw_label),
                   doc_check)

\* lines 1342-1353 on the lowered label
SuspicionOfLabel(confidence, raw_label, doc_check) ==
    SuspicionOfDocument(confidence, raw_label,
                        Get(doc_check, "high_confidence_recyclable", FALSE), doc_check)

analyze_for_suspicious_content(image, classification_result) ==
    IF ~({"confidence", "raw_label"} \subseteq DOMAIN classification_result)
    THEN SuspicionCheckFailed
    ELSE SuspicionOfLabel(classification_result.confidence,
             Lower(classification_result.raw_label),
             detect_document_content(PyImage(image),
                 PyStr(Lower(classification_result.raw_label)), ""))

-----------------------------------------------------------------------------
(* process_analysis_results                                                *)

\* the threshold above which a suspicious result is rejected outright
RejectScore == 70

\* the confidence under which an otherwise usable image goes to review
ReviewConfidence == 50

AcceptedMessages(label) ==
    <<"Your image has been accepted",
      "Material identified: " \o label,
      "The image meets our marketplace quality standards",
      "Thank you for contributing to the EcoLoop community!">>

\* an engine that reads the quality result before it defaults it
EngineRaisesOnMissing(classification_result, quality_result, suspicious_result, document_check) ==
    \/ classification_result = None
    \/ ~({"label", "confidence"} \subseteq DOMAIN classification_result)
    \/ quality_result = None

\* classification_result['label'] and ['confidence'] are read on every path and
\* raise inside the try block when the dict lacks them; every dict the stages
\* return carries the other keys that are read with d['k']
EngineRaises(classification_result, quality_result, suspicious_result, document_check) ==
    \/ classification_result = None
    \/ ~({"label", "confidence"} \subseteq DOMAIN classification_result)

\* the document rule made to depend on the document confidence as well
DocumentRuleFiresWhenSure(document_check) ==
    Truthy(document_check) /\ document_check.is_document
    /\ document_check.confidence > Pct(75)

\* `document_check and document_check['is_document']`
DocumentRuleFires(document_check) ==
    Truthy(document_check) /\ document_check.is_document

\* review only under the 12% bar of the reliable categories
NeedsReviewLenient(confidence) == confidence <= Pct(12)

\* `classification_result['confidence'] < 50`
NeedsReview(confidence) == confidence < Pct(ReviewConfidence)

\* the high-confidence recyclable flag of either optional result
IsHighConfidence(suspicious_result, document_check) ==
    \/ (Truthy(suspicious_result)
        /\ Get(suspicious_result, "high_confidence_recyclable", FALSE))
    \/ (Truthy(document_check)
        /\ Get(document_check, "high_confidence_recyclable", FALSE))

\* a response that drops the messages for the user
EngineResponseSilent(classification_result, status, is_document, review_required, rejection_reason, specific_issue, recommendations) ==
    [status          |-> status,
     material        |-> classification_result.label,
     confidence      |-> classification_result.confidence,
     raw_label       |-> Get(classification_result, "raw_label", ""),
     is_document     |-> is_document,
     admin           |-> [review_required  |-> review_required,
                          rejection_reason |-> rejection_reason,
                          specific_issue   |-> specific_issue],
     recommendations |-> <<>>]

\* a response that asks for a review whenever the image is not accepted
EngineResponseReviewAll(classification_result, status, is_document, review_required, rejection_reason, specific_issue, recommendations) ==
    [status          |-> status,
     material        |-> classification_result.label,
     confidence      |-> classification_result.confidence,
     raw_label       |-> Get(classification_result, "raw_label", ""),
     is_document     |-> is_document,
     admin           |-> [review_required  |-> status # "usable",
                          rejection_reason |-> rejection_reason,
                          specific_issue   |-> specific_issue],
     recommendations |-> recommendations]

\* the response dict assembled by both return statements
EngineResponse(classification_result, status, is_document, review_required, rejection_reason, specific_issue, recommendations) ==
    [status          |-> status,
     material        |-> classification_result.label,
     confidence      |-> classification_result.confidence,
     raw_label       |-> Get(classification_result, "raw_label", ""),
     is_document     |-> is_document,
     admin           |-> [review_required  |-> review_required,
                          rejection_reason |-> rejection_reason,
                          specific_issue   |-> specific_issue],
     recommendations |-> recommendations]

process_analysis_results(classification_result, quality_result_arg, suspicious_result, document_check) ==
    IF EngineRaises(classification_result, quality_result_arg,
                    suspicious_result, document_check)
    THEN [status |-> "error", error |-> "exception"]
    ELSE
      LET quality_result == IF quality_result_arg = None
                            THEN [status |-> "usable", issues |-> <<>>]
                            ELSE quality_result_arg
          is_high_confidence == IsHighConfidence(suspicious_result, document_check)
          label == classification_result.label
          is_document == IF Truthy(document_check)
                         THEN document_check.is_document ELSE FALSE
      IN
      IF is_high_confidence
      THEN EngineResponse(classification_result, "usable", FALSE, FALSE, Null, Null,
                          AcceptedMessages(label))
      ELSE IF DocumentRuleFires(document_check)
      THEN EngineResponse(classification_result, "rejected", is_document, FALSE,
             "document_detected", "document",
             <<"This image cannot be used in the marketplace",
               "This image contains too much text and appears to be a document rather than a recyclable item",
               "Please upload photos of actual recyclable materials (fabric, wood, metal, etc.)",
               "Documents, receipts, and papers with text are not accepted",
               "Take a clear photo of just the material itself without any documents or text">>)
      ELSE IF Truthy(suspicious_result) /\ suspicious_result.is_suspicious
      THEN IF suspicious_result.suspicious_score > RejectScore
           THEN EngineResponse(classification_result, "rejected", is_document, FALSE,
                  "suspicious_content", suspicious_result.specific_issue,
                  <<"This image cannot be used in the marketplace",
                    "This appears to be a " \o suspicious_result.specific_issue
                        \o " rather than a recyclable material",
                    "Please upload photos of actual recyclable materials (fabric, wood, metal, etc.)",
                    "Non-material images are not accepted",
                    "Take a clear photo of just the material itself">>)
           ELSE EngineResponse(classification_result, "pending_review", is_document, TRUE,
                  Null, suspicious_result.specific_issue,
                  <<"Your image has been submitted for review",
                    "It will need to be approved by an admin before becoming visible",
                    "Please ensure your post content follows our community guidelines",
                    "For marketplace listings, please upload images focusing on the recyclable material itself">>)
      ELSE IF quality_result.status = "low_quality"
      THEN EngineResponse(classification_result, "rejected", is_document, FALSE,
             "low_quality", "quality",
             <<"This image cannot be used due to quality issues:">>
               \o quality_result.issues
               \o <<"Please upload a clear, well-lit photo of the material">>)
      ELSE IF NeedsReview(classification_result.confidence)
      THEN EngineResponse(classification_result, "pending_review", is_document, TRUE,
             Null, "potential_suspicious",
             AcceptedMessages(label)
               \o <<"Your image has been submitted for review",
                    "It will need to be approved by an admin before becoming visible",
                    "Please ensure your uploads show only recyclable materials",
                    "Items should be clearly visible and follow marketplace guidelines">>)
      ELSE EngineResponse(classification_result, "usable", is_document, FALSE,
             Null, Null, AcceptedMessages(label))

\* the parameters of process_analysis_results
EngineParams ==
    {"classification_result", "quality_result", "suspicious_result", "document_check"}

\* A call process_analysis_results(k1=v1, ...): Python binds the keywords to
\* the parameters before the body (and its try block) runs, and raises
\* TypeError in the caller for a keyword that names no parameter.
\* `keywords` are the names written at the call site, `kwargs` their values.
CallEngine(keywords, kwargs) ==
    IF ~(keywords \subseteq EngineParams)
    THEN [raised |-> TRUE,
          error  |-> "process_analysis_results() got an unexpected keyword argument"]
    ELSE IF "classification_result" \notin keywords
    THEN [raised |-> TRUE,
          error  |-> "process_analysis_results() missing 1 required positional argument"]
    ELSE [raised |-> FALSE,
          value  |-> process_analysis_results(
                         kwargs.classification_result,
                         Get(kwargs, "quality_result", None),
                         Get(kwargs, "suspicious_result", None),
                         Get(kwargs, "document_check", None))]

-----------------------------------------------------------------------------
(* HTTP handlers                                                           *)

\* A URL is identified with the resource it resolves to: the outcome of the
\* fetch, the decoded image and the classifier's answer for that image.
download_image_from_url(url) ==
    IF url.fetch = "ok" THEN [raised |-> FALSE, image |-> url.image]
    ELSE IF url.fetch = "network"
    THEN [raised |-> TRUE, error |-> "Failed to download image: " \o url.fetch]
    ELSE [raised |-> TRUE, error |-> "Failed to process image: " \o url.fetch]

\* dict with the keys of `fields` popped
Without(d, fields) == [k \in (DOMAIN d) \ fields |-> d[k]]

\* d[k] = v on a dict with string keys
Put(d, k, v) == (k :> v) @@ d

admin_fields ==
    {"admin_status", "admin_notes", "admin_review_required",
     "document_analysis", "suspicious_analysis", "confidence_metrics"}

\* response.get('context_analysis', {}).get('primary_context', 'unknown')
DetectedContext(response) ==
    Get(Get(response, "context_analysis", <<>>), "primary_context", "unknown")

\* response.get('context_analysis', {}).get('context_scores', {}).get(name, 0)
ContextScore(response, name) ==
    Get(Get(Get(response, "context_analysis", <<>>), "context_scores", <<>>), name, 0)

\* a request body request.get_json() cannot parse: it raises BadRequest
Malformed == [py_malformed |-> TRUE]

BadRequest == "400 Bad Request: The browser (or proxy) sent a request that this server could not understand."

\* an except branch that names the text 'message'
ErrorResponseWithMessage(prefix, error) ==
    [code |-> 500,
     body |-> [message |-> prefix \o error, status |-> "error",
               label |-> "unknown", confidence |-> 0]]

\* the 500 response of the except branch of predict / analyze_profile / analyze_post
ErrorResponse(prefix, error) ==
    [code |-> 500,
     body |-> [error |-> prefix \o error, status |-> "error",
               label |-> "unknown", confidence |-> 0]]

MissingImageUrl ==
    [code |-> 400,
     body |-> [error |-> "Missing image_url in request body", status |-> "error"]]

\* admin fields popped and the nested results cut down to their essentials
StripAdmin(response) ==
    LET r1 == Without(response, admin_fields)
        r2 == IF "quality_analysis" \in DOMAIN r1
              THEN Put(r1, "quality_analysis",
                       [status |-> Get(r1.quality_analysis, "status", Null),
                        quality_score |-> Get(r1.quality_analysis, "quality_score", Null)])
              ELSE r1
    IN r2

\* predict, lines 747-807: context flagging, guidance, admin filtering
PredictPostProcess(response, intended_context, admin_mode) ==
    LET detected_context == DetectedContext(response)
        context_match == intended_context = detected_context
        context_confidence == ContextScore(response, intended_context)
        r1 == Put(Put(response, "intended_context", intended_context),
                  "context_match", context_match)
        flag == /\ ~context_match /\ context_confidence < 20
                /\ r1.status # "rejected" /\ r1.status # "pending_review"
        r2 == IF flag
              THEN Put(Put(Put(Put(Put(r1, "status", "pending_review"),
                       "admin_review_required", TRUE),
                       "admin_status", "flagged"),
                       "specific_issue", "severe_context_mismatch"),
                       "admin_notes",
                       Get(r1, "admin_notes", <<>>)
                         \o <<"Context mismatch: Intended " \o intended_context
                                \o ", detected " \o detected_context,
                              "Context confidence score">>)
              ELSE r1
        guidance ==
            IF intended_context = "marketplace" /\ detected_context \in {"profile", "post"}
            THEN <<"This image appears to be more suitable for a profile or post rather than a marketplace item.",
                   "For marketplace listings, please upload images focusing on the recyclable material itself.">>
            ELSE IF intended_context = "profile" /\ detected_context = "marketplace"
            THEN <<"This image appears to show an object rather than a person, which may not be ideal for a profile picture.">>
            ELSE IF intended_context = "post" /\ detected_context = "marketplace"
            THEN <<"This image appears to focus on a single material/object. For posts, you might want to show the full project or impact.">>
            ELSE <<>>
        r3 == IF ~context_match /\ "recommendations" \in DOMAIN r2
              THEN Put(r2, "recommendations", r2.recommendations \o guidance)
              ELSE r2
        r4 == IF ~admin_mode
              THEN LET q == StripAdmin(r3)
                   IN IF "classification" \in DOMAIN q
                      THEN Put(q, "classification",
                               [label |-> Get(q.classification, "label", Null),
                                confidence |-> Get(q.classification, "confidence", Null)])
                      ELSE q
              ELSE r3
    IN r4

\* the keywords every handler writes in its call of process_analysis_results
HandlerKeywords ==
    {"image_url", "image", "quality_result", "classification_result",
     "document_result", "suspicious_result"}

\* the values the handlers give those keywords
HandlerKwargs(image_url, image, quality_result, classification_result, document_result, suspicious_result) ==
    [image_url             |-> image_url,
     image                 |-> image,
     quality_result        |-> quality_result,
     classification_result |-> classification_result,
     document_result       |-> document_result,
     suspicious_result     |-> suspicious_result]

\* predict, lines 725-745: the stages and the call of the decision engine
PredictCall(image_url, image, classification_result) ==
    CallEngine(HandlerKeywords,
        HandlerKwargs(image_url, image,
            check_image_quality(image),
            classification_result,
            detect_document_content(PyImage(image), PyDict(classification_result), ""),
            analyze_for_suspicious_content(image, classification_result)))

\* predict, lines 747-823: the reply made of the outcome of that call
PredictReply(call, intended_context, admin_mode) ==
    IF call.raised
    THEN ErrorResponse("Image analysis failed: ", call.error)
    ELSE IF intended_context = ""
    THEN \* detected_context is unbound at the final log line: NameError
         ErrorResponse("Image analysis failed: ",
                       "name 'detected_context' is not defined")
    ELSE [code |-> 200,
          body |-> PredictPostProcess(call.value, intended_context, admin_mode)]

\* POST /predict with JSON body `data`; `fetched` counts the download attempts
predict(tbl, data) ==
    IF data = Malformed
    THEN [fetched |-> 0, reply |-> ErrorResponse("Image analysis failed: ", BadRequest)]
    ELSE IF data = None \/ "image_url" \notin DOMAIN data
    THEN [fetched |-> 0, reply |-> MissingImageUrl]
    ELSE
      LET image_url == data.image_url
          intended_context == Get(data, "context", "marketplace")
          admin_mode == Get(data, "admin_mode", FALSE)
          dl == download_image_from_url(image_url)
      IN
      IF dl.raised
      THEN [fetched |-> 1, reply |-> ErrorResponse("Image analysis failed: ", dl.error)]
      ELSE [fetched |-> 1,
            reply |-> PredictReply(
                          PredictCall(image_url.id, dl.image,
                              classify_image_with_mobilenet(tbl.MARKETPLACE_CATEGORIES,
                                                            image_url.pred)),
                          intended_context, admin_mode)]

\* response['admin_notes'].append(...) after creating the list when absent
AppendNotes(response, notes) ==
    Put(response, "admin_notes", Get(response, "admin_notes", <<>>) \o notes)

\* response['recommendations'].append(...) after creating the list when absent
AppendRecommendations(response, lines) ==
    Put(response, "recommendations", Get(response, "recommendations", <<>>) \o lines)

\* status, admin_status, admin_review_required and specific_issue of a flagged response
Flagged(response, specific_issue) ==
    Put(Put(Put(Put(response, "status", "pending_review"),
        "admin_status", "flagged"),
        "admin_review_required", TRUE),
        "specific_issue", specific_issue)

\* a profile check that flags rejected images as well
ProfileFlagAlways(response) ==
    ContextScore(response, "profile") < 30

\* analyze_profile, line 1021: `profile_confidence < 30 and response['status'] != 'rejected'`
ProfileFlag(response) ==
    ContextScore(response, "profile") < 30 /\ response.status # "rejected"

\* analyze_profile, lines 1017-1062: profile flagging, document advice, admin filtering
ProfilePostProcess(response, admin_mode) ==
    LET r1 == IF ProfileFlag(response)
              THEN AppendRecommendations(
                       AppendNotes(Flagged(response, "not_profile_picture"),
                           <<"Low profile confidence", "Detected as: "
                               \o DetectedContext(response) \o " context">>),
                       <<"This image may not be ideal for a profile picture.",
                         "Profile pictures usually show a person's face or appropriate representation.">>)
              ELSE response
        r2 == IF Get(r1, "specific_issue", Null) \in {"document", "sensitive_document"}
              THEN AppendRecommendations(r1,
                       <<"Using identification documents or cards as profile pictures is not permitted.",
                         "Please upload an appropriate profile photo instead.">>)
              ELSE r1
    IN IF ~admin_mode THEN StripAdmin(r2) ELSE r2

\* analyze_post, lines 1119-1137: the DIY check of posts of type 'diy'
DiyFlagged(response, post_type) ==
    IF post_type = "diy" /\ ContextScore(response, "diy_project") < 20
       /\ response.status # "rejected"
    THEN AppendRecommendations(
             AppendNotes(Flagged(response, "may_not_be_diy"),
                 <<"Low DIY project confidence">>),
             <<"This image may not clearly show a DIY project.",
               "For DIY posts, please show the actual project or before/after photos.">>)
    ELSE response

\* the recommendations without those that mention the review
WithoutReview(recommendations) ==
    SelectSeq(recommendations, LAMBDA rec : ~Contains("submitted for review", rec))

\* analyze_post, lines 1139-1150: leniency for posts of mediocre quality
QualityLeniency(response, quality_result) ==
    IF /\ Get(response, "specific_issue", Null) \in {"too_dark", "too_bright", "too_blurry"}
       /\ Get(quality_result, "quality_score", 0) > 30
       /\ response.status = "pending_review"
    THEN Put(Put(Put(Put(response, "status", "usable"),
             "admin_status", "usable"),
             "admin_review_required", FALSE),
             "recommendations",
             WithoutReview(Get(response, "recommendations", <<>>))
               \o <<"Image quality could be improved but is acceptable for posting.">>)
    ELSE response

\* analyze_post, lines 1119-1165: DIY flagging, quality leniency, admin filtering
PostPostProcess(response, quality_result, post_type, admin_mode) ==
    IF ~admin_mode
    THEN StripAdmin(QualityLeniency(DiyFlagged(response, post_type), quality_result))
    ELSE QualityLeniency(DiyFlagged(response, post_type), quality_result)

\* a cap that lets one more URL through
MaxBatchSizeLoose == 10 + 1

\* the hard cap on the number of URLs of one batch
MaxBatchSize == 10

\* analyze_batch, lines 853-873: the stages and the call of the decision engine
BatchCall(image_url, image, classification_result) ==
    CallEngine(HandlerKeywords,
        HandlerKwargs(image_url, image,
            check_image_quality(image),
            classification_result,
            detect_document_content(PyDict(classification_result), PyImage(image), ""),
            analyze_for_suspicious_content(image, classification_result)))

\* analyze_batch, lines 875-887: the entry appended for the outcome of that call
BatchEntryOfCall(image_url, i, call) ==
    IF call.raised
    THEN [index |-> i, url |-> image_url, error |-> call.error]
    ELSE [index |-> i, url |-> image_url, result |-> call.value]

\* one iteration of the loop of analyze_batch: the entry appended for URL i
BatchEntry(tbl, url, i) ==
    LET dl == download_image_from_url(url)
    IN
    IF dl.raised
    THEN [index |-> i, url |-> url.id, error |-> dl.error]
    ELSE BatchEntryOfCall(url.id, i,
             BatchCall(url.id, dl.image,
                 classify_image_with_mobilenet(tbl.MARKETPLACE_CATEGORIES, url.pred)))

\* number of entries of the batch with a result of the given status
CountStatus(results, status) ==
    Cardinality({i \in 1..Len(results) :
                    /\ "error" \notin DOMAIN results[i]
                    /\ "result" \in DOMAIN results[i]
                    /\ Get(results[i].result, "status", "") = status})

\* the keys of context_summary
BatchContexts == {"marketplace", "profile", "post", "diy_project", "unknown"}

\* the context an entry with a result is counted under
CountedContext(entry) ==
    LET context == DetectedContext(entry.result)
    IN IF context \in BatchContexts THEN context ELSE "unknown"

\* lines 890-929: the counts by status
IssuesSummary(results) ==
    [total          |-> Len(results),
     usable         |-> CountStatus(results, "usable"),
     blurry         |-> CountStatus(results, "blurry"),
     low_quality    |-> CountStatus(results, "low_quality"),
     documents      |-> CountStatus(results, "inappropriate_content"),
     suspicious     |-> CountStatus(results, "suspicious"),
     low_confidence |-> CountStatus(results, "low_confidence"),
     errors         |-> Cardinality({i \in 1..Len(results) :
                                        "error" \in DOMAIN results[i]}),
     non_recyclable |-> CountStatus(results, "non_recyclable")]

\* lines 903-936: the counts by detected context
ContextSummary(results) ==
    [c \in BatchContexts |->
        Cardinality({i \in 1..Len(results) :
                        /\ "error" \notin DOMAIN results[i]
                        /\ "result" \in DOMAIN results[i]
                        /\ CountedContext(results[i]) = c})]

\* lines 939-956: the recommendations for the batch as a whole
BatchRecommendations(data, total, documents, quality_issues, suspicious, marketplace) ==
    (IF documents > 0
     THEN <<ToString(documents)
              \o " images appear to be documents or text-heavy content.",
            "Please ensure you're uploading images of actual recyclable materials, not documentation or receipts.">>
     ELSE <<>>)
    \o (IF quality_issues > 0
        THEN <<ToString(quality_issues)
                 \o " images have quality issues (blurry, too dark/bright, or too small).",
               "Try to take photos in good lighting with your camera steady and focused on the items.">>
        ELSE <<>>)
    \o (IF suspicious > 0
        THEN <<ToString(suspicious)
                 \o " images were flagged for potentially inappropriate content.",
               "Please review our community guidelines regarding acceptable content.">>
        ELSE <<>>)
    \o (IF 2 * marketplace < total /\ Get(data, "context", Null) = "marketplace"
        THEN <<"Many of your images (" \o ToString(total - marketplace)
                 \o ") don't appear to be focused on recyclable materials.",
               "For marketplace listings, please focus on clearly showing the recyclable materials you're offering.">>
        ELSE <<>>)

\* lines 958-965: the body of the reply
BatchBody(data, results, issues_summary, context_summary) ==
    [batch_results         |-> results,
     total_processed       |-> Len(results),
     issues_summary        |-> issues_summary,
     context_summary       |-> context_summary,
     batch_recommendations |->
         BatchRecommendations(data, Len(results), issues_summary.documents,
             issues_summary.low_quality + issues_summary.blurry,
             issues_summary.suspicious, context_summary.marketplace),
     status                |-> "completed"]

\* lines 889-965: the summaries of the collected entries
BatchSummary(data, results) ==
    BatchBody(data, results, IssuesSummary(results), ContextSummary(results))

\* the 500 response of the outer except branch of analyze_batch
BatchFailed(error) ==
    [code |-> 500,
     body |-> [error |-> "Batch analysis failed: " \o error, status |-> "error"]]

\* POST /analyze-batch with JSON body `data`
analyze_batch(tbl, data) ==
    IF data = Malformed
    THEN [fetched |-> 0, reply |-> BatchFailed(BadRequest)]
    ELSE IF data = None \/ "image_urls" \notin DOMAIN data
    THEN [fetched |-> 0,
          reply |-> [code |-> 400,
                     body |-> [error |-> "Missing image_urls array in request body",
                               status |-> "error"]]]
    ELSE IF Len(data.image_urls) > MaxBatchSize
    THEN [fetched |-> 0,
          reply |-> [code |-> 400,
                     body |-> [error |-> "Maximum 10 images allowed per batch",
                               status |-> "error"]]]
    ELSE [fetched |-> Len(data.image_urls),
          reply |-> [code |-> 200,
                     \* enumerate() numbers the entries from 0
                     body |-> BatchSummary(data,
                                  [i \in 1..Len(data.image_urls) |->
                                      BatchEntry(tbl, data.image_urls[i], i - 1)])]]

-----------------------------------------------------------------------------
(* Inputs                                                                  *)

\* bounds of the model
MaxSlots == 2       \* HTTP requests served concurrently
MaxBatchLen == 2    \* length of the batches whose URLs are chosen freely
MaxRows == 6        \* text rows of the document layouts

\* what check_image_quality measures
QualityProfile(w, h, lap, bright, fail) ==
    [width |-> w, height |-> h, laplacian_var |-> lap, brightness |-> bright,
     cv_fail |-> fail]

QualityProfiles ==
    {QualityProfile(640, 480, 500, 128, "none"),     \* sharp, well lit
     QualityProfile(50, 480, 500, 128, "none"),      \* too narrow
     QualityProfile(640, 99, 500, 128, "none"),      \* too low
     QualityProfile(640, 480, 50, 30, "none"),       \* blurry and dark
     QualityProfile(640, 480, 50, 128, "none"),      \* blurry
     QualityProfile(640, 480, 500, 128, "stats"),    \* Laplacian / mean raise
     QualityProfile(640, 480, 500, 128, "convert")}  \* cvtColor raises

\* y positions of `rows` text rows of `per` contours each, `gap` pixels apart
RowPositions(rows, per, gap) ==
    [i \in 1..(rows * per) |-> 10 + gap * ((i - 1) \div per)]

\* what the text and visual-pattern detectors measure
ContentProfile(n, ratio, cx, cy, aspect, textlike, small, ys, hl, vl, dl, headers, fields, blocks, bp, dp, mp) ==
    [n_contours |-> n, largest_area_ratio |-> ratio, center_x |-> cx,
     center_y |-> cy, aspect_ratio |-> aspect, text_like_contours |-> textlike,
     small_rectangular_contours |-> small, y_positions |-> ys,
     horizontal_lines |-> hl, vertical_lines |-> vl, diagonal_lines |-> dl,
     header_rectangles |-> headers, form_field_rectangles |-> fields,
     content_rectangles |-> blocks, bright_peaks |-> bp, dark_peaks |-> dp,
     mid_peaks |-> mp]

ContentProfiles ==
    {\* plain material surface: a few contours, nothing else
     ContentProfile(4, 5, 50, 50, 100, 0, 0, <<>>, 0, 0, 3, 0, 0, 0, 0, 0, 4),
     \* a bottle in the middle of the frame
     ContentProfile(6, 40, 50, 50, 50, 2, 1, <<>>, 1, 2, 5, 0, 0, 0, 1, 0, 3),
     \* a printed form: text rows, grid lines, boxes
     ContentProfile(60, 2, 10, 10, 500, 45, 45, RowPositions(MaxRows, 4, 20),
                    10, 10, 2, 3, 6, 4, 1, 1, 1),
     \* the same form with a bottle lying on it
     ContentProfile(60, 40, 50, 50, 50, 45, 45, RowPositions(MaxRows, 4, 20),
                    10, 10, 2, 3, 6, 4, 1, 1, 1),
     \* text rows only, no grid and no boxes
     ContentProfile(60, 2, 10, 10, 500, 45, 45, RowPositions(MaxRows, 4, 20),
                    0, 0, 0, 0, 0, 0, 1, 1, 1)}

Images == {q @@ c : q \in QualityProfiles, c \in ContentProfiles}

\* raw labels the classifier oracle may give as the top prediction
Labels ==
    {"water_bottle", "lumbermill", "packet", "park_bench", "pet", "dog",
     "person", "monitor", "envelope", "Petri_dish", "volcano"}

\* top-1 confidences, in hundredths of a percent
Confidences == {Pct(10), Pct(13), 1999, Pct(20), 4999, Pct(50), Pct(95)}

\* the lower-ranked prediction that may follow a top label "pet"
BottleSecond == <<[label |-> "pop_bottle", confidence |-> Pct(5)]>>

Prediction(label, confidence, rest) ==
    [ok |-> TRUE, top5 |-> <<[label |-> label, confidence |-> confidence]>> \o rest]

Predictions ==
    {Prediction(l, c, <<>>) : l \in Labels, c \in Confidences}
    \cup {Prediction("pet", c, BottleSecond) : c \in Confidences}
    \cup {[ok |-> FALSE, top5 |-> <<>>]}

GoodQuality == QualityProfile(640, 480, 500, 128, "none")
BottleContent ==
    ContentProfile(6, 40, 50, 50, 50, 2, 1, <<>>, 1, 2, 5, 0, 0, 0, 1, 0, 3)
PlainContent ==
    ContentProfile(4, 5, 50, 50, 100, 0, 0, <<>>, 0, 0, 3, 0, 0, 0, 0, 0, 4)

Url(id, fetch, image, pred) ==
    [id |-> id, fetch |-> fetch, image |-> image, pred |-> pred]

\* the URLs clients submit, each with what it resolves to
Urls ==
    {Url("http://img/bottle.jpg", "ok", GoodQuality @@ BottleContent,
         Prediction("water_bottle", Pct(95), <<>>)),
     Url("http://img/dog.jpg", "ok", GoodQuality @@ PlainContent,
         Prediction("dog", Pct(95), <<>>)),
     Url("http://down/x.jpg", "network", GoodQuality @@ PlainContent,
         Prediction("dog", Pct(95), <<>>)),
     Url("http://img/page.html", "not_image", GoodQuality @@ PlainContent,
         Prediction("dog", Pct(95), <<>>))}

\* the URLs batches are built from
BatchUrls == {u \in Urls : u.id \in {"http://img/bottle.jpg", "http://down/x.jpg"}}

\* the URL whose image is fetched and shows an allow-listed material
FetchedUrls == {u \in Urls : u.id = "http://img/bottle.jpg"}

\* JSON bodies of POST /predict
PredictBodies ==
    {[image_url |-> u] : u \in Urls}
    \cup {[image_url |-> u, context |-> c] : u \in FetchedUrls, c \in {"profile", ""}}
    \cup {[image_url |-> u, admin_mode |-> TRUE] : u \in FetchedUrls}
    \cup {[context |-> "marketplace"], None, Malformed}

RECURSIVE SeqsUpTo(_, _)
\* all sequences over S of length at most n
SeqsUpTo(S, n) ==
    IF n = 0 THEN {<<>>}
    ELSE LET shorter == SeqsUpTo(S, n - 1)
         IN shorter \cup {Append(q, x) : q \in {t \in shorter : Len(t) = n - 1}, x \in S}

\* JSON bodies of POST /analyze-batch: short batches of any URLs, and
\* batches of one repeated URL at and just over the cap
BatchBodies ==
    {[image_urls |-> q] : q \in SeqsUpTo(BatchUrls, MaxBatchLen)}
    \cup {[image_urls |-> [i \in 1..n |-> u]] :
             n \in {MaxBatchSize, MaxBatchSize + 1}, u \in FetchedUrls}
    \cup {[image_urls |-> <<u>>, context |-> "marketplace"] : u \in FetchedUrls}
    \cup {[context |-> "marketplace"], Malformed}

Requests ==
    {[endpoint |-> "predict", data |-> d] : d \in PredictBodies}
    \cup {[endpoint |-> "analyze_batch", data |-> d] : d \in BatchBodies}

Slots == 1..MaxSlots

-----------------------------------------------------------------------------
(* The service: concurrent HTTP requests                                   *)

\* a handler that consumes the category table while it scans it
TablesAfterRequestConsuming(tbl) ==
    [tbl EXCEPT !.MARKETPLACE_CATEGORIES = Tail(@)]

\* The handlers only read the module-level tables; no statement of a request
\* path assigns to them or mutates them.
TablesAfterRequest(tbl) == tbl

Idle ==
    /\ tables = StaticTables
    /\ slots = [s \in Slots |-> None]
    /\ replies = [s \in Slots |-> None]
    /\ fetches = [s \in Slots |-> 0]

NoDirectRun ==
    /\ pc = "idle"
    /\ inp = None
    /\ stage = None
    /\ verdict = None

Init == Idle /\ NoDirectRun

\* a request arrives at a free worker
Receive(s) ==
    /\ slots[s] = None
    /\ \E r \in Requests : slots' = [slots EXCEPT ![s] = r]
    /\ UNCHANGED <<tables, replies, fetches, pc, inp, stage, verdict>>

\* the worker runs predict() on its request
Predict(s) ==
    /\ slots[s] # None /\ replies[s] = None
    /\ slots[s].endpoint = "predict"
    /\ LET out == predict(tables, slots[s].data)
       IN /\ replies' = [replies EXCEPT ![s] = out.reply]
          /\ fetches' = [fetches EXCEPT ![s] = out.fetched]
    /\ tables' = TablesAfterRequest(tables)
    /\ UNCHANGED <<slots, pc, inp, stage, verdict>>

\* the worker runs analyze_batch() on its request
AnalyzeBatch(s) ==
    /\ slots[s] # None /\ replies[s] = None
    /\ slots[s].endpoint = "analyze_batch"
    /\ LET out == analyze_batch(tables, slots[s].data)
       IN /\ replies' = [replies EXCEPT ![s] = out.reply]
          /\ fetches' = [fetches EXCEPT ![s] = out.fetched]
    /\ tables' = TablesAfterRequest(tables)
    /\ UNCHANGED <<slots, pc, inp, stage, verdict>>

\* the response is sent and the worker is free again
Send(s) ==
    /\ replies[s] # None
    /\ slots' = [slots EXCEPT ![s] = None]
    /\ replies' = [replies EXCEPT ![s] = None]
    /\ fetches' = [fetches EXCEPT ![s] = 0]
    /\ UNCHANGED <<tables, pc, inp, stage, verdict>>

Next ==
    \E s \in Slots : Receive(s) \/ Predict(s) \/ AnalyzeBatch(s) \/ Send(s)

Spec == Init /\ [][Next]_vars

-----------------------------------------------------------------------------
(* The pipeline functions run directly: stages, then the decision engine   *)

\* how the optional arguments of process_analysis_results are supplied:
\* each stage result is passed or left out; the document check is the
\* result of detect_document_content(image, raw_label), or of the call
\* with the arguments the handlers give it, or left out
CallShapes ==
    [quality : BOOLEAN, suspicious : BOOLEAN,
     document : {"label", "handler", "absent"}]

DirectInit ==
    /\ Idle
    /\ pc = "start"
    /\ inp \in [image : Images, pred : Predictions]
    /\ stage = None
    /\ verdict = None

\* quality check, classification, document check and suspicion screening
RunStages ==
    /\ pc = "start"
    /\ LET classification_result ==
               classify_image_with_mobilenet(tables.MARKETPLACE_CATEGORIES, inp.pred)
       IN stage' =
            [quality_result        |-> check_image_quality(inp.image),
             classification_result |-> classification_result,
             document_check        |->
                 detect_document_content(PyImage(inp.image),
                     PyStr(classification_result.raw_label), ""),
             handler_document      |->
                 detect_document_content(PyDict(classification_result),
                     PyImage(inp.image), ""),
             suspicious_result     |->
                 analyze_for_suspicious_content(inp.image, classification_result)]
    /\ pc' = "staged"
    /\ UNCHANGED <<tables, slots, replies, fetches, inp, verdict>>

\* the keywords of a call of the given shape
ShapedKeywords(shape) ==
    {"classification_result"}
    \cup (IF shape.quality THEN {"quality_result"} ELSE {})
    \cup (IF shape.suspicious THEN {"suspicious_result"} ELSE {})
    \cup (IF shape.document # "absent" THEN {"document_check"} ELSE {})

\* the values given to those keywords
ShapedKwargs(st, shape) ==
    [k \in ShapedKeywords(shape)
       |-> IF k = "document_check"
           THEN (IF shape.document = "label" THEN st.document_check
                 ELSE st.handler_document)
           ELSE st[k]]

\* process_analysis_results is called on the stage results
Decide ==
    /\ pc = "staged"
    /\ \E shape \in CallShapes :
          verdict' = [shape  |-> shape,
                      result |-> CallEngine(ShapedKeywords(shape),
                                           ShapedKwargs(stage, shape)).value]
    /\ pc' = "done"
    /\ UNCHANGED <<tables, slots, replies, fetches, inp, stage>>

DirectNext == RunStages \/ Decide

SpecDirect == DirectInit /\ [][DirectNext]_vars

-----------------------------------------------------------------------------
(* The post-processing of the endpoints, applied to the engine's verdicts   *)

PostLabels == {"water_bottle", "packet", "person", "envelope", "volcano"}

PostPredictions ==
    {Prediction(l, c, <<>>) : l \in PostLabels, c \in {Pct(10), Pct(50), Pct(95)}}
    \cup {[ok |-> FALSE, top5 |-> <<>>]}

\* what the client asks for: the endpoint, its context hint or post type,
\* and the admin-detail flag
PostRequests ==
    {[endpoint |-> "predict", context |-> c, admin_mode |-> a] :
        c \in {"marketplace", "profile", ""}, a \in BOOLEAN}
    \cup {[endpoint |-> "analyze_profile", admin_mode |-> a] : a \in BOOLEAN}
    \cup {[endpoint |-> "analyze_post", post_type |-> t, admin_mode |-> a] :
            t \in {"general", "diy"}, a \in BOOLEAN}

PostInit ==
    /\ Idle
    /\ pc = "start"
    /\ inp \in [image : Images, pred : PostPredictions]
    /\ stage = None
    /\ verdict = None

\* the lines of an endpoint that follow the call of the engine, on `response`
EndpointReply(request, response, quality_result) ==
    IF request.endpoint = "predict"
    THEN PredictReply([raised |-> FALSE, value |-> response],
                      request.context, request.admin_mode)
    ELSE IF request.endpoint = "analyze_profile"
    THEN [code |-> 200, body |-> ProfilePostProcess(response, request.admin_mode)]
    ELSE [code |-> 200,
          body |-> PostPostProcess(response, quality_result,
                                   request.post_type, request.admin_mode)]

\* a request is served up to the verdict of the engine on the stage results
DecideRequest ==
    /\ pc = "staged"
    /\ \E request \in PostRequests, document \in {"label", "handler"} :
          LET shape == [quality |-> TRUE, suspicious |-> TRUE, document |-> document]
          IN verdict' =
               [shape   |-> shape,
                request |-> request,
                result  |-> CallEngine(ShapedKeywords(shape),
                                       ShapedKwargs(stage, shape)).value]
    /\ pc' = "decided"
    /\ UNCHANGED <<tables, slots, replies, fetches, inp, stage>>

\* the reply the endpoint makes of the verdict
PostProcess ==
    /\ pc = "decided"
    /\ verdict' = Put(verdict, "reply",
                      EndpointReply(verdict.request, verdict.result,
                                    stage.quality_result))
    /\ pc' = "posted"
    /\ UNCHANGED <<tables, slots, replies, fetches, inp, stage>>

PostNext == RunStages \/ DecideRequest \/ PostProcess

SpecPost == PostInit /\ [][PostNext]_vars

-----------------------------------------------------------------------------
(* The classifier's category mapping run on its own                        *)

\* top labels: keywords declared by several categories, keywords declared
\* with capital letters, labels in other letter cases, keys of the
\* recyclable table, labels of one category and of none
ClassifierLabels ==
    {"jersey", "wool", "hammer", "wrench", "container", "boot", "straw",
     "Jersey", "WOOL", "claw_hammer", "cowboy_boot", "wool_gown",
     "T-shirt", "t-shirt", "PET", "pet", "HDPE", "hdpe", "PVC", "pvc_pipe",
     "Petri_dish", "petri_dish", "Packet", "packet", "Band_Aid",
     "park_bench", "wine_bottle", "water_bottle", "wallet", "mirror",
     "sofa", "volcano", "dog"}

ClassifyInit ==
    /\ Idle
    /\ pc = "predicted"
    /\ inp \in [image : {GoodQuality @@ PlainContent},
                 pred  : {Prediction(l, c, <<>>) : l \in ClassifierLabels,
                                                  c \in Confidences}]
    /\ stage = None
    /\ verdict = None

\* the category mapping of the top label and the table lookup of the
\* document check
Classify ==
    /\ pc = "predicted"
    /\ stage' = [classification_result |->
                    classify_image_with_mobilenet(tables.MARKETPLACE_CATEGORIES, inp.pred),
                 document_check |->
                    detect_document_content(PyImage(inp.image),
                        PyStr(inp.pred.top5[1].label), "")]
    /\ pc' = "classified"
    /\ UNCHANGED <<tables, slots, replies, fetches, inp, verdict>>

ClassifyNext == Classify

SpecClassify == ClassifyInit /\ [][ClassifyNext]_vars

-----------------------------------------------------------------------------
(* The detectors run on their own: quality check and document detection   *)

\* the largest contour: a small one in a corner, or a bottle in the middle
LargestContours ==
    {[ratio |-> 2, centre |-> 10, aspect |-> 500],
     [ratio |-> 40, centre |-> 50, aspect |-> 50]}

\* <<text_like_contours, small_rectangular_contours>>
TextCounts == {<<0, 0>>, <<25, 36>>, <<45, 45>>}

\* six rows of four contours with one gap three times as wide as the others
UnevenRows ==
    [i \in 1..24 |-> 10 + 20 * ((i - 1) \div 4) + (IF i > 12 THEN 40 ELSE 0)]

\* runs chained by steps of 5, a run of three, steps of 6, a run with repeats
ChainedRows ==
    <<10, 15, 20, 25, 40, 40, 40, 60, 61, 62, 63, 64, 80, 86, 92, 98,
      110, 110, 111, 112>>

\* five rows of four contours, listed from the bottom of the image upwards
BottomUpRows == [i \in 1..20 |-> 10 + 20 * ((20 - i) \div 4)]

\* five rows of four contours whose gaps are 20 - d and 20 + d in turn
WavyRows(d) ==
    [i \in 1..20 |-> 10 + 20 * ((i - 1) \div 4)
                      - (IF ((i - 1) \div 4) % 2 = 1 THEN d ELSE 0)]

\* y positions of the contours: none, 5 even rows, MaxRows even rows, uneven
\* rows, chained runs, rows listed bottom-up, rows with alternating gaps
RowLayouts ==
    {<<>>, RowPositions(5, 4, 20), RowPositions(MaxRows, 4, 20), UnevenRows,
     ChainedRows, BottomUpRows, WavyRows(4), WavyRows(5)}

\* <<header_rectangles, form_field_rectangles, content_rectangles>>
RectangleCounts == {<<0, 0, 0>>, <<3, 6, 4>>}

\* <<bright_peaks, dark_peaks, mid_peaks>> of the histogram
HistogramPeaks == {<<0, 0, 4>>, <<1, 1, 1>>}

DetectorContents ==
    {ContentProfile(n, o.ratio, o.centre, o.centre, o.aspect, t[1], t[2], ys,
                    l, l, 2, r[1], r[2], r[3], h[1], h[2], h[3]) :
        n \in {30, 60}, o \in LargestContours, t \in TextCounts, ys \in RowLayouts,
        l \in {0, 10}, r \in RectangleCounts, h \in HistogramPeaks}

\* sizes, sharpness and brightness on and around the thresholds
QualityGrid ==
    {QualityProfile(w, h, lap, b, f) :
        w \in {99, 100, 640}, h \in {99, 100},
        lap \in {50, 99, 100, 500}, b \in {30, 49, 50, 128, 200, 201, 230},
        f \in {"none", "stats", "convert"}}

DetectorLabels == {"volcano", "packet", "water_bottle"}

Filenames == {"", "id_card.png"}

DetectorInputs ==
    {[image |-> GoodQuality @@ c, label |-> l, filename |-> f] :
        c \in DetectorContents, l \in DetectorLabels, f \in Filenames}
    \cup {[image |-> q @@ PlainContent, label |-> "volcano", filename |-> ""] :
             q \in QualityGrid}

DetectInit ==
    /\ Idle
    /\ pc = "measure"
    /\ inp \in DetectorInputs
    /\ stage = None
    /\ verdict = None

\* the quality check, the two detectors and the document check on one image
Detect ==
    /\ pc = "measure"
    /\ stage' =
         [quality_result  |-> check_image_quality(inp.image),
          text_results    |-> detect_text_in_image(inp.image),
          pattern_results |-> detect_document_visual_patterns(inp.image),
          document_check  |->
              detect_document_content(PyImage(inp.image), PyStr(inp.label),
                                      inp.filename)]
    /\ pc' = "measured"
    /\ UNCHANGED <<tables, slots, replies, fetches, inp, verdict>>

DetectNext == Detect

SpecDetect == DetectInit /\ [][DetectNext]_vars

-----------------------------------------------------------------------------
(* Properties                                                              *)

\* the arguments the finished direct run gave to process_analysis_results
PassedQuality == Get(ShapedKwargs(stage, verdict.shape), "quality_result", None)
PassedSuspicion == Get(ShapedKwargs(stage, verdict.shape), "suspicious_result", None)
PassedDocument == Get(ShapedKwargs(stage, verdict.shape), "document_check", None)

\* every stage result was passed, the document check as computed from the label
FullCall ==
    verdict.shape = [quality |-> TRUE, suspicious |-> TRUE, document |-> "label"]

\* the top raw label of the classifier's answer
TopLabel == inp.pred.top5[1].label

InSeq(x, q) == \E i \in DOMAIN q : q[i] = x

\* C1: an image whose width or height is below min_size gets the verdict
\* rejected with the reason 'Image too small', for every classification,
\* document signal and suspicion result.
C1_TooSmallIsRejected ==
    (/\ pc = "done"
     /\ verdict.shape.quality
     /\ (inp.image.width < min_size \/ inp.image.height < min_size))
    => /\ verdict.result.status = "rejected"
       /\ InSeq("Image too small", Get(verdict.result, "recommendations", <<>>))

\* the request of slot s is a predict request whose image is fetched
FetchedPredict(s) ==
    /\ slots[s] # None
    /\ slots[s].endpoint = "predict"
    /\ slots[s].data # None
    /\ "image_url" \in DOMAIN slots[s].data
    /\ slots[s].data.image_url.fetch = "ok"

\* the label is a key of the allow-list with a value of at least 90
AllowListed(label) ==
    \E i \in DOMAIN recyclable_labels :
        recyclable_labels[i].key = Lower(label) /\ recyclable_labels[i].value >= 90

\* C2: a predict request whose top label is on the high-confidence recyclable
\* allow-list (value >= 90) is answered with status 'usable'.
C2_AllowListedIsApproved ==
    \A s \in Slots :
        (/\ FetchedPredict(s)
         /\ replies[s] # None
         /\ slots[s].data.image_url.pred.ok
         /\ AllowListed(slots[s].data.image_url.pred.top5[1].label))
        => replies[s].body.status = "usable"

\* the rejected-content categories that declare a keyword contained in label
RejectedCategories(label) ==
    {NON_MARKETPLACE_CATEGORIES[i].category : i \in
        {j \in DOMAIN NON_MARKETPLACE_CATEGORIES :
            AnyIn(NON_MARKETPLACE_CATEGORIES[j].keywords, Lower(label))}}

\* "pet" next to a prediction that indicates a plastic container
PetException ==
    /\ Contains("pet", Lower(TopLabel))
    /\ \E i \in DOMAIN inp.pred.top5 :
          AnyIn(<<"bottle", "container", "plastic", "cup", "jar", "bowl", "tray">>,
                Lower(inp.pred.top5[i].label))

\* C3: a top label that contains a keyword of a rejected-content category,
\* the 'pet'-with-plastic exception apart, gets the verdict rejected with the
\* declaring category reported, at every classification confidence.
C3_RejectedContentIsRejected ==
    (/\ pc = "done"
     /\ FullCall
     /\ inp.pred.ok
     /\ RejectedCategories(TopLabel) # {}
     /\ ~PetException)
    => /\ verdict.result.status = "rejected"
       /\ \/ verdict.result.admin.rejection_reason \in RejectedCategories(TopLabel)
          \/ verdict.result.admin.specific_issue \in RejectedCategories(TopLabel)

\* top label 'pet' with a secondary prediction that contains 'bottle'
PetWithBottle ==
    /\ inp.pred.ok
    /\ Lower(TopLabel) = "pet"
    /\ \E i \in 2..Len(inp.pred.top5) : Contains("bottle", Lower(inp.pred.top5[i].label))

\* C4: for the top label 'pet' with a secondary prediction containing
\* 'bottle' the suspicion score holds no non-material penalty, and neither the
\* suspicion result nor the verdict names an animal or non-material issue.
C4_PetBottleNotAnimal ==
    (pc # "start" /\ PetWithBottle)
    => /\ stage.suspicious_result.specific_issue \notin {"non_material", "animal"}
       /\ stage.suspicious_result.suspicious_score =
              (IF stage.classification_result.confidence < Pct(20) THEN 30 ELSE 0)
              + (IF stage.document_check.is_document THEN 50 ELSE 0)
       /\ pc = "done"
          => /\ verdict.result.admin.rejection_reason \notin {"non_material", "animal"}
             /\ verdict.result.admin.specific_issue \notin {"non_material", "animal"}

C4_Witness ==
    /\ pc = "done"
    /\ PetWithBottle
    /\ FullCall
    /\ verdict.result.status = "usable"

\* the reply the request gets from a freshly started process
ReplyAlone(r) ==
    IF r.endpoint = "predict" THEN predict(StaticTables, r.data).reply
    ELSE analyze_batch(StaticTables, r.data).reply

PlainWood ==
    /\ pc = "done"
    /\ FullCall
    /\ stage.classification_result.label = "wood"
    /\ stage.quality_result.status = "usable"
    /\ ~stage.document_check.is_document
    /\ ~stage.suspicious_result.is_suspicious
    /\ ~Get(stage.document_check, "high_confidence_recyclable", FALSE)

SingleRunVerdict(url) ==
    LET classification_result ==
            classify_image_with_mobilenet(StaticTables.MARKETPLACE_CATEGORIES, url.pred)
    IN process_analysis_results(
           classification_result,
           check_image_quality(url.image),
           analyze_for_suspicious_content(url.image, classification_result),
           detect_document_content(PyImage(url.image),
                                   PyStr(classification_result.raw_label), ""))

\* slot s holds an answered batch of at most MaxBatchSize URLs of which at
\* least one cannot be fetched
AnsweredBatchWithFailure(s) ==
    /\ slots[s] # None
    /\ replies[s] # None
    /\ slots[s].endpoint = "analyze_batch"
    /\ "image_urls" \in DOMAIN slots[s].data
    /\ Len(slots[s].data.image_urls) <= MaxBatchSize
    /\ \E k \in DOMAIN slots[s].data.image_urls :
          slots[s].data.image_urls[k].fetch # "ok"

\* C7: a batch of N URLs with an unfetchable image k is answered with N
\* entries in input order, entry i carrying index i; entry k carries an error
\* and every other entry the verdict of a single run of its URL, not an error.
C7_BatchIsolatesFailure ==
    \A s \in Slots :
        AnsweredBatchWithFailure(s)
        => LET urls == slots[s].data.image_urls
               entries == replies[s].body.batch_results
           IN /\ Len(entries) = Len(urls)
              /\ \A i \in DOMAIN urls :
                    /\ entries[i].index = i - 1
                    /\ entries[i].url = urls[i].id
                    /\ IF urls[i].fetch # "ok"
                       THEN "error" \in DOMAIN entries[i]
                       ELSE /\ "error" \notin DOMAIN entries[i]
                            /\ "result" \in DOMAIN entries[i]
                            /\ entries[i].result = SingleRunVerdict(urls[i])

\* C8: when the quality status is low_quality the verdict is rejected for low
\* quality with the quality issues as its reason, also for a document, a
\* suspicious result and a high-confidence recyclable label.
C8_QualityGateFirst ==
    (/\ pc = "done"
     /\ verdict.shape.quality
     /\ stage.quality_result.status = "low_quality")
    => /\ verdict.result.status = "rejected"
       /\ verdict.result.admin.rejection_reason = "low_quality"
       /\ \A i \in DOMAIN stage.quality_result.issues :
             InSeq(stage.quality_result.issues[i], verdict.result.recommendations)

\* the allow-list override did not fire on the arguments of the call
NoOverride ==
    /\ ~Get(PassedSuspicion, "high_confidence_recyclable", FALSE)
    /\ ~Get(PassedDocument, "high_confidence_recyclable", FALSE)

\* the call was given a document signal that says is_document
DocumentSignalled ==
    /\ PassedDocument # None
    /\ PassedDocument.is_document

\* C9: when the allow-list override has not fired and the document signal
\* passed to the engine has is_document true, the verdict is rejected with
\* reason 'document_detected' and is_document true, for every suspicion score,
\* classification confidence and quality status.
C9_DocumentIsRejected ==
    (pc = "done" /\ NoOverride /\ DocumentSignalled)
    => /\ verdict.result.status = "rejected"
       /\ verdict.result.admin.rejection_reason = "document_detected"
       /\ verdict.result.is_document = TRUE

C9_Witness ==
    /\ pc = "done"
    /\ FullCall
    /\ NoOverride
    /\ DocumentSignalled
    /\ stage.quality_result.status = "usable"
    /\ inp.pred.ok
    /\ RejectedCategories(TopLabel) = {}
    /\ stage.suspicious_result.suspicious_score > 70
    /\ stage.classification_result.confidence < Pct(50)
    /\ verdict.result.admin.rejection_reason = "document_detected"

\* C10: is_suspicious holds exactly when the suspicion score exceeds 40; when
\* neither the allow-list override nor the document rule fired, a passed
\* suspicion result with score > 70 gives rejected, one with 40 < score <= 70
\* gives pending_review, and one with score <= 40 (or none passed) leaves the
\* verdict to the quality and confidence rules.
C10_SuspicionThresholds ==
    /\ pc # "start"
       => (stage.suspicious_result.is_suspicious
             <=> stage.suspicious_result.suspicious_score > 40)
    /\ (pc = "done" /\ NoOverride /\ ~DocumentSignalled)
       => LET score == IF PassedSuspicion = None THEN 0
                       ELSE PassedSuspicion.suspicious_score
              admin == verdict.result.admin
          IN /\ score > 70
                => /\ verdict.result.status = "rejected"
                   /\ admin.rejection_reason = "suspicious_content"
             /\ (score > 40 /\ score <= 70)
                => /\ verdict.result.status = "pending_review"
                   /\ admin.review_required
                   /\ admin.specific_issue = PassedSuspicion.specific_issue
             /\ score <= 40
                => /\ admin.rejection_reason # "suspicious_content"
                   /\ verdict.result.status = "rejected"
                      => admin.rejection_reason = "low_quality"
                   /\ verdict.result.status = "pending_review"
                      => /\ admin.specific_issue = "potential_suspicious"
                         /\ verdict.result.confidence < Pct(50)

C10_Witness ==
    /\ pc = "done"
    /\ NoOverride
    /\ ~DocumentSignalled
    /\ PassedSuspicion # None
    /\ PassedSuspicion.suspicious_score > 70
    /\ verdict.result.admin.rejection_reason = "suspicious_content"

\* C11: for a top label on the high-confidence recyclable allow-list the
\* suspicion screening adds nothing: suspicious_score is 0, specific_issue is
\* unset and is_suspicious is false, at every classification confidence.
C11_AllowListedNotScreened ==
    (pc # "start" /\ inp.pred.ok /\ AllowListed(TopLabel))
    => /\ stage.suspicious_result.suspicious_score = 0
       /\ stage.suspicious_result.specific_issue = Null
       /\ ~stage.suspicious_result.is_suspicious

\* a label without category match on an image of good quality that is no
\* document, with every stage result passed
UnmatchedLabel ==
    /\ pc = "done"
    /\ FullCall
    /\ inp.pred.ok
    /\ stage.classification_result.label = "other"
    /\ stage.quality_result.status = "usable"
    /\ ~stage.document_check.is_document
    /\ ~Get(stage.document_check, "high_confidence_recyclable", FALSE)

\* C12: a label without category match is rejected at very low confidence
\* (below 20%), goes to review at a confidence above 30%, and is never
\* approved.
C12_UnmatchedNeverApproved ==
    UnmatchedLabel
    => /\ verdict.result.status # "usable"
       /\ stage.classification_result.confidence < Pct(20)
          => verdict.result.status = "rejected"
       /\ stage.classification_result.confidence > Pct(30)
          => verdict.result.status = "pending_review"

\* C13: an image with at least 5 aligned, evenly spaced text-row clusters and
\* no large centred object gets a document confidence above 65 and is_document
\* true (neutral label, no file name).
C13_TextRowsMakeDocument ==
    (/\ pc = "measured"
     /\ inp.label = "volcano" /\ inp.filename = ""
     /\ "line_clusters" \in DOMAIN stage.text_results
     /\ stage.text_results.line_clusters >= 5
     /\ stage.text_results.organized_text
     /\ ~stage.text_results.has_central_object
     /\ ~stage.pattern_results.has_recyclable_shape)
    => /\ stage.document_check.confidence > Pct(65)
       /\ stage.document_check.is_document

\* the same measurements with a bottle-shaped largest contour in the middle
WithBottle(image) ==
    [image EXCEPT !.largest_area_ratio = 40, !.center_x = 50, !.center_y = 50,
                  !.aspect_ratio = 50]

\* the same measurements with a small largest contour in a corner
WithoutObject(image) ==
    [image EXCEPT !.largest_area_ratio = 2, !.center_x = 10, !.center_y = 10,
                  !.aspect_ratio = 500]

\* a is not above b, and below it when b is positive
Lowered(a, b) == a <= b /\ (b > 0 => a < b)

\* the document check of the image of the run, with its label and file name
DocumentCheckOf(image) ==
    detect_document_content(PyImage(image), PyStr(inp.label), inp.filename)

C15_QualityScore ==
    (/\ pc = "measured"
     /\ inp.image.width >= 100 /\ inp.image.height >= 100
     /\ inp.image.cv_fail = "none")
    => LET q == stage.quality_result
           blurry == InSeq("Image appears blurry", q.issues)
           dark == InSeq("Image too dark", q.issues)
           bright == InSeq("Image too bright", q.issues)
           penalty == (IF blurry THEN 40 ELSE 0) + (IF dark \/ bright THEN 20 ELSE 0)
       IN /\ blurry <=> inp.image.laplacian_var < 100
          /\ dark <=> inp.image.brightness < 50
          /\ bright <=> inp.image.brightness > 200
          /\ ~(dark /\ bright)
          /\ q.quality_score = (IF penalty > 100 THEN 0 ELSE 100 - penalty)
          /\ q.quality_score \in 0..100
          /\ q.status = (IF q.quality_score < 50 THEN "low_quality"
                         ELSE IF q.quality_score < 70 THEN "blurry"
                         ELSE "usable")

C15_Witness ==
    /\ pc = "measured"
    /\ inp.image.width = 100 /\ inp.image.height = 100
    /\ inp.image.cv_fail = "none"
    /\ inp.image.laplacian_var = 99
    /\ inp.image.brightness = 201
    /\ stage.quality_result.quality_score = 40
    /\ stage.quality_result.status = "low_quality"
    /\ stage.quality_result.issues = <<"Image appears blurry", "Image too bright">>

\* the statistics of the image could not be computed by the quality check
StatisticsFailed ==
    \/ inp.image.cv_fail = "convert"
    \/ /\ inp.image.cv_fail = "stats"
       /\ inp.image.width >= min_size /\ inp.image.height >= min_size

C17_ClassifierFailureIsError ==
    (pc = "done" /\ ~inp.pred.ok) => verdict.result.status = "error"

\* a stage result that comes from an except branch
Failed(result) == "error" \in DOMAIN result

\* one of the stage results passed to the engine comes from an except branch
SomeStageFailed ==
    \/ verdict.shape.quality /\ Failed(stage.quality_result)
    \/ verdict.shape.document # "absent" /\ Failed(PassedDocument)
    \/ Failed(detect_text_in_image(inp.image))
    \/ Failed(detect_document_visual_patterns(inp.image))

\* the suspicion screening of a classification that lacks its raw label
BrokenScreening ==
    analyze_for_suspicious_content(inp.image,
        [label      |-> stage.classification_result.label,
         confidence |-> stage.classification_result.confidence])

FailureReply(s) == replies[s] # None /\ replies[s].code >= 400

\* what process_analysis_results returns from its except branch
EngineFailure == process_analysis_results(None, None, None, None)

OrNeutral(result, neutral) == IF result = None THEN neutral ELSE result

\* C20: process_analysis_results does not return status 'error' because
\* quality_result, suspicious_result or document_check is absent; its verdict
\* is the one it gives when each absent one is replaced by a neutral value
\* (usable quality, not suspicious, not a document).
C20_AbsentIsNeutral ==
    pc = "done"
    => /\ verdict.result.status \in {"usable", "pending_review", "rejected"}
       /\ verdict.result
            = process_analysis_results(stage.classification_result,
                  OrNeutral(PassedQuality, [status |-> "usable", issues |-> <<>>]),
                  OrNeutral(PassedSuspicion,
                            [is_suspicious |-> FALSE, suspicious_score |-> 0]),
                  OrNeutral(PassedDocument,
                            [is_document |-> FALSE, confidence |-> 0]))

C20_Witness ==
    /\ pc = "done"
    /\ verdict.shape = [quality |-> FALSE, suspicious |-> FALSE, document |-> "absent"]
    /\ PassedQuality = None /\ PassedSuspicion = None /\ PassedDocument = None
    /\ stage.quality_result.status = "low_quality"
    /\ stage.suspicious_result.is_suspicious
    /\ verdict.result.status = "usable"

\* C21: every verdict of the decision engine carries a status, a non-empty
\* list of recommendations and the classification confidence; a rejected
\* verdict carries a rejection_reason and a pending_review verdict a
\* specific_issue.
C21_VerdictCarriesRationale ==
    pc = "done"
    => /\ verdict.result.status \in {"usable", "pending_review", "rejected"}
       /\ Len(verdict.result.recommendations) > 0
       /\ \A i \in DOMAIN verdict.result.recommendations :
             Len(verdict.result.recommendations[i]) > 0
       /\ verdict.result.confidence = stage.classification_result.confidence
       /\ verdict.result.status = "rejected"
          => verdict.result.admin.rejection_reason # Null
       /\ verdict.result.status = "pending_review"
          => verdict.result.admin.specific_issue # Null

C21_Witness ==
    /\ pc = "done" /\ FullCall
    /\ inp.pred.ok /\ TopLabel = "person"
    /\ verdict.result.confidence = Pct(10)
    /\ verdict.result.status = "pending_review"
    /\ verdict.result.admin.specific_issue = "personal_image"
    /\ Len(verdict.result.recommendations) = 4

\* C27: in every non-error verdict the status is usable, pending_review or
\* rejected, review_required is true exactly for pending_review,
\* rejection_reason is set exactly for rejected, and is_document is true only
\* for a rejection with reason 'document_detected'.
C27_VerdictFieldsConsistent ==
    (pc = "done" /\ verdict.result.status # "error")
    => /\ verdict.result.status \in {"usable", "pending_review", "rejected"}
       /\ verdict.result.admin.review_required
          <=> verdict.result.status = "pending_review"
       /\ verdict.result.admin.rejection_reason # Null
          <=> verdict.result.status = "rejected"
       /\ verdict.result.is_document
          => /\ verdict.result.status = "rejected"
             /\ verdict.result.admin.rejection_reason = "document_detected"

C27_Witness ==
    /\ pc = "done"
    /\ verdict.shape.document = "label"
    /\ verdict.result.is_document
    /\ verdict.result.status = "rejected"
    /\ verdict.result.admin.rejection_reason = "document_detected"
    /\ ~verdict.result.admin.review_required

\* C28: 'Your image has been accepted' and 'The image meets our marketplace
\* quality standards' are in the recommendations of usable verdicts only, and
\* a usable verdict never has 'Your image has been submitted for review'.
C28_AcceptanceOnlyWhenUsable ==
    pc = "done"
    => /\ (\/ InSeq("Your image has been accepted", verdict.result.recommendations)
           \/ InSeq("The image meets our marketplace quality standards",
                    verdict.result.recommendations))
          => verdict.result.status = "usable"
       /\ verdict.result.status = "usable"
          => ~InSeq("Your image has been submitted for review",
                    verdict.result.recommendations)

\* the screener recorded a penalty for the content category of the label
CategoryPenalty ==
    /\ "specific_issue" \in DOMAIN stage.suspicious_result
    /\ stage.suspicious_result.specific_issue
         \in {"personal_image", "digital_content", "non_material"}

\* C29: a top label for which the screener records a personal, digital or
\* non-material penalty never gets the verdict usable, at any confidence.
C29_PenalisedLabelNotApproved ==
    (pc = "done" /\ FullCall /\ CategoryPenalty)
    => verdict.result.status # "usable"

\* positions of the categories that declare a keyword found in the lowered label
MatchingCategories(label) ==
    {i \in DOMAIN MARKETPLACE_CATEGORIES :
        \E j \in DOMAIN MARKETPLACE_CATEGORIES[i].keywords :
            Contains(MARKETPLACE_CATEGORIES[i].keywords[j], Lower(label))}

\* the earliest declared category of each keyword that several declare
SharedKeywordCategory ==
    [jersey |-> "fabric", wool |-> "fabric", hammer |-> "metal", wrench |-> "metal",
     container |-> "plastic", boot |-> "rubber", straw |-> "plastic"]

\* C22: the category of a top label is the first one, in the declared order
\* of MARKETPLACE_CATEGORIES, with a keyword found in the label, and 'other'
\* when there is none; a keyword declared by several categories resolves to
\* the earliest of them.
C22_FirstDeclaredCategoryWins ==
    pc = "classified"
    => LET matching == MatchingCategories(TopLabel)
           label == stage.classification_result.label
       IN /\ matching = {} <=> label = "other"
          /\ \A i \in matching :
                (\A j \in matching : i <= j)
                => label = MARKETPLACE_CATEGORIES[i].category
          /\ TopLabel \in DOMAIN SharedKeywordCategory
             => label = SharedKeywordCategory[TopLabel]

C22_Witness ==
    /\ pc = "classified"
    /\ TopLabel = "wool"
    /\ MatchingCategories(TopLabel) = {1, 2, 13}
    /\ stage.classification_result.label = "fabric"

\* C23: a label that contains a declared category keyword in any letter case
\* is mapped to a category and not to 'other', and a label that equals a key
\* of the recyclable table in any letter case is given that key's value.
C23_KeywordsIgnoreCase ==
    pc = "classified"
    => /\ (\E i \in DOMAIN MARKETPLACE_CATEGORIES :
              \E j \in DOMAIN MARKETPLACE_CATEGORIES[i].keywords :
                 Contains(Lower(MARKETPLACE_CATEGORIES[i].keywords[j]), Lower(TopLabel)))
          => stage.classification_result.label # "other"
       /\ \A i \in DOMAIN recyclable_labels :
             Lower(recyclable_labels[i].key) = Lower(TopLabel)
             => /\ stage.document_check.has_recyclable_indicators
                /\ stage.document_check.recyclable_confidence >= recyclable_labels[i].value

\* worker s has answered a batch request that carries a list of URLs
AnsweredBatch(s) ==
    /\ slots[s] # None /\ replies[s] # None
    /\ slots[s].endpoint = "analyze_batch"
    /\ slots[s].data # Malformed
    /\ "image_urls" \in DOMAIN slots[s].data

\* C24: a batch of more than 10 URLs is refused with status 'error' and no
\* image is fetched; a batch of at most 10 URLs fetches once per URL and
\* returns one entry per URL, in the order of the request.
C24_BatchCap ==
    \A s \in Slots :
        AnsweredBatch(s)
        => LET urls == slots[s].data.image_urls
               body == replies[s].body
           IN IF Len(urls) > 10
              THEN /\ replies[s].code = 400
                   /\ body.status = "error"
                   /\ "batch_results" \notin DOMAIN body
                   /\ fetches[s] = 0
              ELSE /\ replies[s].code = 200
                   /\ fetches[s] = Len(urls)
                   /\ Len(body.batch_results) = Len(urls)
                   /\ body.total_processed = Len(urls)
                   /\ \A i \in 1..Len(urls) :
                         /\ body.batch_results[i].index = i - 1
                         /\ body.batch_results[i].url = urls[i].id

C24_Witness ==
    \E s, t \in Slots :
        /\ AnsweredBatch(s) /\ AnsweredBatch(t)
        /\ Len(slots[s].data.image_urls) = 11
        /\ replies[s].code = 400 /\ fetches[s] = 0
        /\ Len(slots[t].data.image_urls) = 10
        /\ replies[t].code = 200 /\ fetches[t] = 10
        /\ Len(replies[t].body.batch_results) = 10

\* the endpoint answered with a verdict
Posted == pc = "posted" /\ verdict.reply.code = 200

\* the same request with the other value of the admin-detail flag
OtherMode(request) == [request EXCEPT !.admin_mode = ~@]

\* C25: without the admin-detail flag the response has none of admin_status,
\* admin_notes, admin_review_required, document_analysis, suspicious_analysis,
\* confidence_metrics and no 'admin' block; with the flag the admin details
\* are left in; the status is the same in both cases.
C25_AdminDetailsOnlyForAdmins ==
    Posted
    => LET body == verdict.reply.body
       IN /\ ~verdict.request.admin_mode
             => DOMAIN body \cap (admin_fields \cup {"admin"}) = {}
          /\ verdict.request.admin_mode => "admin" \in DOMAIN body
          /\ body.status
               = EndpointReply(OtherMode(verdict.request), verdict.result,
                               stage.quality_result).body.status

\* rejected, pending_review and usable in rising order
Rank(status) ==
    IF status = "rejected" THEN 0 ELSE IF status = "pending_review" THEN 1 ELSE 2

\* C30: the post-processing of the endpoints leaves a rejected verdict
\* rejected and does not flag it; it raises a status only from pending_review
\* to usable, in analyze_post, for a quality issue with a quality score
\* above 30.
C30_RejectedStaysRejected ==
    Posted
    => LET body == verdict.reply.body
       IN /\ verdict.result.status = "rejected"
             => /\ body.status = "rejected"
                /\ Get(body, "admin_status", Null) # "flagged"
                /\ ~Get(body, "admin_review_required", FALSE)
                /\ Get(body, "specific_issue", Null)
                     \notin {"severe_context_mismatch", "not_profile_picture",
                             "may_not_be_diy"}
          /\ Rank(body.status) > Rank(verdict.result.status)
             => /\ verdict.request.endpoint = "analyze_post"
                /\ verdict.result.status = "pending_review"
                /\ body.status = "usable"
                /\ Get(body, "specific_issue", Null)
                     \in {"too_dark", "too_bright", "too_blurry"}
                /\ stage.quality_result.quality_score > 30

C30_Witness ==
    /\ Posted
    /\ verdict.request = [endpoint |-> "analyze_profile", admin_mode |-> TRUE]
    /\ verdict.result.status = "rejected"
    /\ verdict.result.admin.rejection_reason = "low_quality"
    /\ ContextScore(verdict.result, "profile") < 30
    /\ verdict.reply.body.status = "rejected"
    /\ "admin_status" \notin DOMAIN verdict.reply.body

\* the y positions of the image in rising order
SortedYs == SortSeq(inp.image.y_positions, LAMBDA a, b : a < b)

\* the positions of ys at which a run starts: the first, and each one more
\* than 5 px below its predecessor
RunStartsOf(ys) == {i \in 1..Len(ys) : i = 1 \/ ys[i] - ys[i - 1] > 5}

RunStarts == RunStartsOf(SortedYs)

\* the last position of the run that starts at i
RunEnd(ys, i) ==
    CHOOSE j \in i..Len(ys) :
        /\ \A k \in (i + 1)..j : ys[k] - ys[k - 1] <= 5
        /\ j = Len(ys) \/ ys[j + 1] - ys[j] > 5

\* the gaps between consecutive rows, each row recorded at the end of its run
RowGaps(row_ys) ==
    [i \in 1..(Len(row_ys) - 1) |-> row_ys[i + 1] - row_ys[i]]

\* the variance of the gaps is below 25: Sum(g^2)/n - (Sum(g)/n)^2 < 25
GapVarianceLow(gaps) ==
    LET n == Len(gaps)
        squares == [i \in 1..n |-> gaps[i] * gaps[i]]
    IN n * SumSeq(squares) - SumSeq(gaps) * SumSeq(gaps) < 25 * n * n

\* the results are those of the runs of ys that have at least 4 elements
RowsAreRunsOf(results, ys, ends) ==
    /\ results.line_clusters
         = Cardinality({i \in DOMAIN ends : ends[i] - i + 1 >= 4})
    /\ results.text_rows = results.line_clusters
    /\ \A k \in 1..Len(ys) :
          Cardinality({i \in DOMAIN ends : i <= k /\ k <= ends[i]}) = 1
    /\ results.organized_text
         <=> /\ results.line_clusters >= 5
             /\ GapVarianceLow(RowGaps(SortedKeys(
                    {ys[ends[i]] : i \in {r \in DOMAIN ends : ends[r] - r + 1 >= 4}})))

RunEndsOf(ys) == [i \in RunStartsOf(ys) |-> RunEnd(ys, i)]

\* line_clusters, text_rows and organized_text are those of the runs
RowsAreRuns ==
    RowsAreRunsOf(stage.text_results, SortedYs, RunEndsOf(SortedYs))

\* the text detector measured the image
TextMeasured == pc = "measured" /\ inp.image.cv_fail # "convert"

\* C26 as stated: line_clusters is the number of maximal runs of at least 4
\* sorted y positions each within 5 px of its predecessor, every position is
\* in exactly one run, text_rows equals line_clusters, and organized_text
\* holds exactly when line_clusters >= 5 and the variance of the row gaps is
\* below 25.
C26_RowsAreRuns ==
    TextMeasured => RowsAreRuns

\* C26 amended: that holds for an image with more than 30 contours; with 30
\* contours or fewer no rows are formed, line_clusters and text_rows are 0 and
\* organized_text is false.
C26_RowsAreRunsOfLargeImages ==
    TextMeasured
    => IF inp.image.n_contours > 30
       THEN RowsAreRuns
       ELSE /\ stage.text_results.line_clusters = 0
            /\ stage.text_results.text_rows = 0
            /\ ~stage.text_results.organized_text

C26_Witness ==
    /\ TextMeasured
    /\ inp.image.n_contours = 60
    /\ inp.image.y_positions = ChainedRows
    /\ Cardinality(RunStarts) = 8
    /\ stage.text_results.line_clusters = 3
    /\ stage.text_results.text_rows = 3
    /\ ~stage.text_results.organized_text

=============================================================================
